---- MODULE Spec2Model ----
(***************************************************************************)
(* Love Letter rules engine (love_letter/engine) with its two drivers, the *)
(* terminal loop (love_letter/cli/main.py) and the single-table HTTP       *)
(* session (love_letter/server.py GameSession).                            *)
(*                                                                         *)
(* Player ids are the seat indices 0..n-1 (new_game enumerates the names). *)
(* Python's None is NoId for a player id and NoCard for a card.  The       *)
(* injected random source is a nondeterministic choice: of the shuffle     *)
(* (one of the decks Shuffled(k)), of the first start seat and of the      *)
(* winner who starts the next round.                                       *)
(***************************************************************************)
EXTENDS Integers, Sequences, FiniteSets, TLC

VARIABLES
    players,               \* GameState.players = RoundState.players (shared)
    target_tokens,         \* GameState.target_tokens
    round_number,          \* GameState.round_number
    next_start_player_id,  \* GameState.next_start_player_id
    deck,                  \* RoundState.deck, drawn from the end
    burned,                \* RoundState.burned
    face_up,               \* RoundState.face_up
    current_player_idx,    \* RoundState.current_player_idx
    events,                \* RoundState.events
    round_over,            \* RoundState.round_over
    result,                \* the last call and its outcome: what it returned or raised
    pc                     \* position of the terminal driver loop (cli/main.py)

gameVars  == <<players, target_tokens, round_number, next_start_player_id>>
roundVars == <<deck, burned, face_up, current_player_idx, events, round_over>>
stateVars == <<gameVars, roundVars>>
vars      == <<stateVars, result, pc>>

----------------------------------------------------------------------------
(* Bounds of the exploration *)

NumShuffles   == 4    \* shuffles the random source may produce: Shuffled(1..NumShuffles)
MaxRounds     == 2    \* rounds set up in one game
MaxEvents     == 6    \* engine calls are explored while the log of the round is shorter
MaxRequests   == 10   \* session requests are explored while the log of the round is shorter
MaxCalls      == 2    \* concurrent requests issued in one behaviour

----------------------------------------------------------------------------
(* Card catalog: cards.py *)

GUARD    == 1
PRIEST   == 2
BARON    == 3
HANDMAID == 4
PRINCE   == 5
KING     == 6
COUNTESS == 7
PRINCESS == 8

CardType == GUARD..PRINCESS

CARD_COUNTS ==
    [c \in CardType |->
        CASE c = GUARD -> 5
          [] c \in {PRIEST, BARON, HANDMAID, PRINCE} -> 2
          [] OTHER -> 1]

NoId   == -1    \* None as a player id
NoCard == 0     \* None as a card

----------------------------------------------------------------------------
(* Sequence helpers: Python list operations *)

Last(s)  == s[Len(s)]
Front(s) == SubSeq(s, 1, Len(s) - 1)

In(x, s) == \E i \in 1..Len(s) : s[i] = x

\* list.remove(x): drops the first occurrence
Remove(s, x) ==
    LET i == CHOOSE j \in 1..Len(s) : s[j] = x /\ \A h \in 1..(j - 1) : s[h] # x
    IN  SubSeq(s, 1, i - 1) \o SubSeq(s, i + 1, Len(s))

Reverse(s) == [i \in 1..Len(s) |-> s[Len(s) + 1 - i]]

RECURSIVE SumSeq(_)
SumSeq(s) == IF s = <<>> THEN 0 ELSE s[1] + SumSeq(Tail(s))

RECURSIVE Count(_, _)
Count(s, x) == IF s = <<>> THEN 0 ELSE (IF s[1] = x THEN 1 ELSE 0) + Count(Tail(s), x)

Max(S) == CHOOSE m \in S : \A x \in S : x <= m

----------------------------------------------------------------------------
(* Setup tables and new_game: rules.py *)

SetupConfig(down, up) == [burn_face_down |-> down, burn_face_up |-> up]

DEFAULT_SETUP_BY_PLAYERS ==
    [m \in 2..4 |-> IF m = 2 THEN SetupConfig(1, 3) ELSE SetupConfig(1, 0)]

TARGET_TOKENS_BY_PLAYERS ==
    [m \in 2..4 |-> CASE m = 2 -> 7 [] m = 3 -> 5 [] OTHER -> 4]

\* both raise RulesError for a player count outside the table
SupportedPlayers == DOMAIN DEFAULT_SETUP_BY_PLAYERS

default_target_tokens(m) == TARGET_TOKENS_BY_PLAYERS[m]

default_setup(m) == DEFAULT_SETUP_BY_PLAYERS[m]

PlayerState ==
    [hand |-> <<>>, discard |-> <<>>, tokens |-> 0,
     protected |-> FALSE, eliminated |-> FALSE]

\* new_game(names) for m names: ids 0..m-1 in input order
new_game(m) == [i \in 0..(m - 1) |-> PlayerState]

NumPlayers == Cardinality(DOMAIN players)
Ids        == DOMAIN players

----------------------------------------------------------------------------
(* build_deck: the 16 cards in catalog order, then rng.shuffle *)

RECURSIVE Copies(_, _)
Copies(c, k) == IF k = 0 THEN <<>> ELSE <<c>> \o Copies(c, k - 1)

RECURSIVE Extend(_)
Extend(c) ==
    IF c > PRINCESS THEN <<>> ELSE Copies(c, CARD_COUNTS[c]) \o Extend(c + 1)

SortedDeck == Extend(GUARD)

\* rng.shuffle may leave any permutation.  The k-th one explored maps position
\* i to a*i + b modulo the deck size (a odd: a bijection on 16 positions), with
\* <<a, b>> = ShuffleSteps[k].  The orders start
\*   1: Countess, Prince, Baron, Priest      2: Countess, Handmaid, Guard, Princess
\*   3: Priest, Guard, Guard, Guard          4: King, Prince, Prince, Handmaid
\*   5: Princess, Prince, Handmaid, Priest
\*   9: Guard, Guard, Guard, Guard            10: Guard, Baron, King, Guard
\* and the cards are dealt from the other end of the list by pop().
ShuffleSteps ==
    <<  <<13, 14>>, <<11, 14>>, <<15, 5>>, <<15, 13>>,
        <<13, 15>>, <<5, 11>>, <<9, 12>>, <<11, 7>>, <<15, 4>>, <<5, 3>>  >>

Shuffled(k) ==
    LET size == Len(SortedDeck)
        a    == ShuffleSteps[k][1]
        b    == ShuffleSteps[k][2]
    IN  [i \in 1..size |-> SortedDeck[((a * (i - 1) + b) % size) + 1]]

build_deck(k) == Shuffled(k)

----------------------------------------------------------------------------
(* The mutable round as one value, threaded through the resolvers *)

\* GameState and its RoundState as one value (the players are shared)
State ==
    [players |-> players, target_tokens |-> target_tokens,
     round_number |-> round_number, next_start_player_id |-> next_start_player_id,
     deck |-> deck, burned |-> burned, face_up |-> face_up,
     current_player_idx |-> current_player_idx, events |-> events,
     round_over |-> round_over]

\* as emit, but the event is put at the head of the log
emit_at_head(rs, ev) == [rs EXCEPT !.events = <<ev>> \o @]

emit(rs, ev) == [rs EXCEPT !.events = Append(@, ev)]

\* The seat of the player with that id; NoId where the code raises
\* RulesError("Player not found.")
_find_player(rs, player_id) ==
    IF player_id \in DOMAIN rs.players THEN player_id ELSE NoId

\* as _valid_targets, but a protected player stays a valid target
_valid_targets_unshielded(rs, player, card) ==
    LET ok(c) ==
            /\ ~rs.players[c].eliminated
            /\ \/ card \in {GUARD, PRIEST, BARON, KING} /\ c # player
               \/ card = PRINCE
        seats == [i \in 1..Cardinality(DOMAIN rs.players) |-> i - 1]
    IN  SelectSeq(seats, ok)

\* as _valid_targets, but the Prince has no self-target
_valid_targets_others_only(rs, player, card) ==
    LET ok(c) ==
            /\ ~rs.players[c].eliminated
            /\ c # player
            /\ ~rs.players[c].protected
        seats == [i \in 1..Cardinality(DOMAIN rs.players) |-> i - 1]
    IN  SelectSeq(seats, ok)

\* Seats of the valid targets, in seat order
_valid_targets(rs, player, card) ==
    LET ok(c) ==
            /\ ~rs.players[c].eliminated
            /\ \/ /\ card \in {GUARD, PRIEST, BARON, KING}
                  /\ c # player
                  /\ ~rs.players[c].protected
               \/ /\ card = PRINCE
                  /\ (c = player \/ ~rs.players[c].protected)
        seats == [i \in 1..Cardinality(DOMAIN rs.players) |-> i - 1]
    IN  SelectSeq(seats, ok)

\* for a known player_id (an unknown one raises in _find_player)
valid_targets(rs, player_id, card) ==
    _valid_targets(rs, _find_player(rs, player_id), card)

\* as legal_play_cards, but only the King forces the Countess
legal_play_cards_king_only(hand) ==
    IF In(COUNTESS, hand) /\ In(KING, hand) THEN <<COUNTESS>> ELSE hand

legal_play_cards(hand) ==
    IF In(COUNTESS, hand) /\ (In(KING, hand) \/ In(PRINCE, hand))
    THEN <<COUNTESS>>
    ELSE hand

Action(player_id, card, target_id, guess) ==
    [player_id |-> player_id, card |-> card, target_id |-> target_id, guess |-> guess]

\* The four blocks of validate_action after the hand checks; each yields the
\* reason it returns, or "None" when it lets the action through.

\* as _check_target, but a target is required even when there is none to name
_check_target_required(valid, action) ==
    IF action.card \notin {GUARD, PRIEST, BARON, KING} THEN "None"
    ELSE IF action.target_id = NoId THEN "This card requires a target."
    ELSE IF valid = <<>> THEN "No valid targets."
    ELSE IF ~In(action.target_id, valid) THEN "Target is not valid."
    ELSE "None"

\* as _check_target, but a target is never required
_check_target_optional(valid, action) ==
    IF action.card \notin {GUARD, PRIEST, BARON, KING} THEN "None"
    ELSE IF valid = <<>>
    THEN (IF action.target_id # NoId THEN "No valid targets." ELSE "None")
    ELSE IF action.target_id = NoId THEN "None"
    ELSE IF ~In(action.target_id, valid) THEN "Target is not valid."
    ELSE "None"

\* Guard, Priest, Baron, King: the target against the valid targets
_check_target(valid, action) ==
    IF action.card \notin {GUARD, PRIEST, BARON, KING} THEN "None"
    ELSE IF valid = <<>>
    THEN (IF action.target_id # NoId THEN "No valid targets." ELSE "None")
    ELSE IF action.target_id = NoId THEN "This card requires a target."
    ELSE IF ~In(action.target_id, valid) THEN "Target is not valid."
    ELSE "None"

\* as _check_guess, but any guess will do
_check_guess_any(valid, action) ==
    IF action.card = GUARD /\ valid # <<>> /\ action.guess = NoCard
    THEN "Guard requires a guess."
    ELSE "None"

\* Guard: the guess, looked at only when a valid target exists
_check_guess(valid, action) ==
    IF action.card = GUARD /\ valid # <<>>
    THEN (IF action.guess = NoCard THEN "Guard requires a guess."
          ELSE IF action.guess = GUARD THEN "Guard cannot guess Guard."
          ELSE "None")
    ELSE "None"

\* Prince: always a target, from its valid targets
_check_prince(valid, action) ==
    IF action.card # PRINCE THEN "None"
    ELSE IF action.target_id = NoId THEN "Prince requires a target."
    ELSE IF ~In(action.target_id, valid) THEN "Target is not valid."
    ELSE "None"

\* Priest, Baron, Guard, King: never the acting player
_check_self(action) ==
    IF /\ action.card \in {PRIEST, BARON, GUARD, KING}
       /\ action.target_id = action.player_id
    THEN "You must target another player."
    ELSE "None"

\* The reason string, "None" when the action is valid, "RulesError" when
\* _find_player raises on the acting player's id.
validate_action(rs, action) ==
    IF _find_player(rs, action.player_id) = NoId THEN "RulesError"
    ELSE
    LET player == rs.players[action.player_id]
        valid  == _valid_targets(rs, action.player_id, action.card)
    IN
    IF player.eliminated THEN "You are eliminated."
    ELSE IF ~In(action.card, player.hand) THEN "You must play a card from your hand."
    ELSE IF ~In(action.card, legal_play_cards(player.hand))
        THEN "You must play the Countess when holding it with King or Prince."
    ELSE IF _check_target(valid, action) # "None" THEN _check_target(valid, action)
    ELSE IF _check_guess(valid, action) # "None" THEN _check_guess(valid, action)
    ELSE IF _check_prince(valid, action) # "None" THEN _check_prince(valid, action)
    ELSE _check_self(action)

----------------------------------------------------------------------------
(* Effect resolvers *)

\* as _eliminate_player, but the eliminated player keeps the hand
_eliminate_player_keep(rs, p, reason) ==
    IF rs.players[p].eliminated THEN rs
    ELSE emit([rs EXCEPT !.players[p].eliminated = TRUE,
                         !.players[p].protected = FALSE],
              [kind |-> "eliminated", player_id |-> p, reason |-> reason])

_eliminate_player(rs, p, reason) ==
    IF rs.players[p].eliminated THEN rs
    ELSE
    LET r1 == [rs EXCEPT !.players[p].eliminated = TRUE,
                         !.players[p].protected = FALSE]
        r2 == IF r1.players[p].hand # <<>>
              THEN LET discarded == Last(r1.players[p].hand)
                   IN  emit([r1 EXCEPT !.players[p].hand = Front(@),
                                       !.players[p].discard = Append(@, discarded)],
                            [kind |-> "discard", player_id |-> p,
                             card |-> discarded, reason |-> "elimination"])
              ELSE r1
    IN  emit(r2, [kind |-> "eliminated", player_id |-> p, reason |-> reason])

\* as _draw_replacement, but the burn pile keeps the card it hands out
_draw_replacement_copy(rs) ==
    IF rs.deck # <<>> THEN <<[rs EXCEPT !.deck = Front(@)], Last(rs.deck)>>
    ELSE IF rs.burned # <<>> THEN <<rs, Last(rs.burned)>>
    ELSE <<rs, NoCard>>

\* as _draw_replacement, but the burn pile is tried before the deck
_draw_replacement_burn_first(rs) ==
    IF rs.burned # <<>> THEN <<[rs EXCEPT !.burned = Front(@)], Last(rs.burned)>>
    ELSE IF rs.deck # <<>> THEN <<[rs EXCEPT !.deck = Front(@)], Last(rs.deck)>>
    ELSE <<rs, NoCard>>

\* <<round after the pop, the card or NoCard>>
_draw_replacement(rs) ==
    IF rs.deck # <<>> THEN <<[rs EXCEPT !.deck = Front(@)], Last(rs.deck)>>
    ELSE IF rs.burned # <<>> THEN <<[rs EXCEPT !.burned = Front(@)], Last(rs.burned)>>
    ELSE <<rs, NoCard>>

\* as _resolve_guard, but the target is out whatever was guessed
_resolve_guard_any_guess(rs, player, target, guess) ==
    IF target = NoId \/ guess = NoCard THEN rs
    ELSE
    LET r1 == emit(rs, [kind |-> "guard_guess", player_id |-> player,
                        target_id |-> target, guess |-> guess])
    IN  IF r1.players[target].hand # <<>>
        THEN _eliminate_player(r1, target, "guard_guess")
        ELSE r1

_resolve_guard(rs, player, target, guess) ==
    IF target = NoId \/ guess = NoCard THEN rs
    ELSE
    LET r1 == emit(rs, [kind |-> "guard_guess", player_id |-> player,
                        target_id |-> target, guess |-> guess])
    IN  IF r1.players[target].hand # <<>> /\ r1.players[target].hand[1] = guess
        THEN _eliminate_player(r1, target, "guard_guess")
        ELSE r1

_resolve_priest(rs, player, target) ==
    IF target = NoId THEN rs
    ELSE IF rs.players[target].hand # <<>>
        THEN emit(rs, [kind |-> "reveal", viewer_id |-> player,
                       target_id |-> target, card |-> rs.players[target].hand[1]])
    ELSE rs

\* as _resolve_baron, but the holder of the higher card is the one eliminated
_resolve_baron_higher_out(rs, player, target) ==
    IF target = NoId THEN rs
    ELSE IF rs.players[player].hand = <<>> \/ rs.players[target].hand = <<>> THEN rs
    ELSE
    LET player_card == rs.players[player].hand[1]
        target_card == rs.players[target].hand[1]
        r1 == emit(rs, [kind |-> "baron_compare", player_id |-> player,
                        target_id |-> target, player_card |-> player_card,
                        target_card |-> target_card])
    IN  IF player_card > target_card THEN _eliminate_player(r1, player, "baron")
        ELSE IF target_card > player_card THEN _eliminate_player(r1, target, "baron")
        ELSE r1

_resolve_baron(rs, player, target) ==
    IF target = NoId THEN rs
    ELSE IF rs.players[player].hand = <<>> \/ rs.players[target].hand = <<>> THEN rs
    ELSE
    LET player_card == rs.players[player].hand[1]
        target_card == rs.players[target].hand[1]
        r1 == emit(rs, [kind |-> "baron_compare", player_id |-> player,
                        target_id |-> target, player_card |-> player_card,
                        target_card |-> target_card])
    IN  IF player_card > target_card THEN _eliminate_player(r1, target, "baron")
        ELSE IF target_card > player_card THEN _eliminate_player(r1, player, "baron")
        ELSE r1

\* as _resolve_prince, but a discarded Princess is replaced like any card
_resolve_prince_spares_princess(rs, player, target) ==
    IF target = NoId THEN rs
    ELSE
    LET hadCard   == rs.players[target].hand # <<>>
        discarded == IF hadCard THEN Last(rs.players[target].hand) ELSE NoCard
        r1 == IF hadCard
              THEN emit([rs EXCEPT !.players[target].hand = Front(@),
                                   !.players[target].discard = Append(@, discarded)],
                        [kind |-> "discard", player_id |-> target,
                         card |-> discarded, reason |-> "prince"])
              ELSE rs
        drawn == _draw_replacement(r1)
    IN  IF drawn[2] # NoCard
        THEN emit([drawn[1] EXCEPT !.players[target].hand = Append(@, drawn[2])],
                  [kind |-> "draw", player_id |-> target,
                   card |-> drawn[2], reason |-> "prince"])
        ELSE drawn[1]

_resolve_prince(rs, player, target) ==
    IF target = NoId THEN rs
    ELSE
    LET hadCard   == rs.players[target].hand # <<>>
        discarded == IF hadCard THEN Last(rs.players[target].hand) ELSE NoCard
        r1 == IF hadCard
              THEN emit([rs EXCEPT !.players[target].hand = Front(@),
                                   !.players[target].discard = Append(@, discarded)],
                        [kind |-> "discard", player_id |-> target,
                         card |-> discarded, reason |-> "prince"])
              ELSE rs
    IN  IF hadCard /\ discarded = PRINCESS
        THEN _eliminate_player(r1, target, "prince_princess")
        ELSE IF r1.players[target].eliminated THEN r1
        ELSE LET drawn       == _draw_replacement(r1)
                 replacement == drawn[2]
             IN  IF replacement # NoCard
                 THEN emit([drawn[1] EXCEPT !.players[target].hand =
                                                Append(@, replacement)],
                           [kind |-> "draw", player_id |-> target,
                            card |-> replacement, reason |-> "prince"])
                 ELSE drawn[1]

\* as _resolve_king, but the target keeps its hand
_resolve_king_one_way(rs, player, target) ==
    IF target = NoId THEN rs
    ELSE IF rs.players[player].hand = <<>> \/ rs.players[target].hand = <<>> THEN rs
    ELSE emit([rs EXCEPT !.players[player].hand = rs.players[target].hand],
              [kind |-> "swap", player_id |-> player, target_id |-> target])

_resolve_king(rs, player, target) ==
    IF target = NoId THEN rs
    ELSE IF rs.players[player].hand = <<>> \/ rs.players[target].hand = <<>> THEN rs
    ELSE emit([rs EXCEPT !.players[player].hand = rs.players[target].hand,
                         !.players[target].hand = rs.players[player].hand],
              [kind |-> "swap", player_id |-> player, target_id |-> target])

----------------------------------------------------------------------------
(* The engine's entry points as functions of the round *)

\* as start_turn, but with the deck empty the burn pile is drawn from
start_turn_from_burned(rs, player_id) ==
    IF _find_player(rs, player_id) = NoId THEN [round |-> rs, ret |-> "RulesError"]
    ELSE IF rs.players[player_id].eliminated THEN [round |-> rs, ret |-> "RulesError"]
    ELSE
    LET r1 == IF rs.players[player_id].protected
              THEN emit([rs EXCEPT !.players[player_id].protected = FALSE],
                        [kind |-> "protection_ended", player_id |-> player_id])
              ELSE rs
    IN  IF r1.deck = <<>> /\ r1.burned = <<>>
        THEN [round |-> emit(r1, [kind |-> "deck_empty"]), ret |-> "False"]
        ELSE IF r1.deck = <<>>
        THEN [round |-> emit([r1 EXCEPT !.burned = Front(@),
                                        !.players[player_id].hand =
                                            Append(@, Last(r1.burned))],
                             [kind |-> "draw", player_id |-> player_id,
                              card |-> Last(r1.burned)]),
              ret |-> "True"]
        ELSE [round |-> emit([r1 EXCEPT !.deck = Front(@),
                                        !.players[player_id].hand =
                                            Append(@, Last(r1.deck))],
                             [kind |-> "draw", player_id |-> player_id,
                              card |-> Last(r1.deck)]),
              ret |-> "True"]

\* as start_turn, but the protection is left standing
start_turn_keep_protection(rs, player_id) ==
    IF _find_player(rs, player_id) = NoId THEN [round |-> rs, ret |-> "RulesError"]
    ELSE IF rs.players[player_id].eliminated THEN [round |-> rs, ret |-> "RulesError"]
    ELSE IF rs.deck = <<>>
    THEN [round |-> emit(rs, [kind |-> "deck_empty"]), ret |-> "False"]
    ELSE [round |-> emit([rs EXCEPT !.deck = Front(@),
                                    !.players[player_id].hand = Append(@, Last(rs.deck))],
                         [kind |-> "draw", player_id |-> player_id,
                          card |-> Last(rs.deck)]),
          ret |-> "True"]

\* [round, ret]: ret is "True" or "False" (the value returned) or
\* "RulesError"
\* as start_turn, but an eliminated player may draw
start_turn_anyone(rs, player_id) ==
    IF _find_player(rs, player_id) = NoId THEN [round |-> rs, ret |-> "RulesError"]
    ELSE
    LET r1 == IF rs.players[player_id].protected
              THEN emit([rs EXCEPT !.players[player_id].protected = FALSE],
                        [kind |-> "protection_ended", player_id |-> player_id])
              ELSE rs
    IN  IF r1.deck = <<>>
        THEN [round |-> emit(r1, [kind |-> "deck_empty"]), ret |-> "False"]
        ELSE LET drawn == Last(r1.deck)
             IN  [round |-> emit([r1 EXCEPT !.deck = Front(@),
                                            !.players[player_id].hand = Append(@, drawn)],
                                 [kind |-> "draw", player_id |-> player_id,
                                  card |-> drawn]),
                  ret |-> "True"]

\* as start_turn, but the drawn card stays on the deck
start_turn_keep_deck(rs, player_id) ==
    IF _find_player(rs, player_id) = NoId THEN [round |-> rs, ret |-> "RulesError"]
    ELSE IF rs.players[player_id].eliminated THEN [round |-> rs, ret |-> "RulesError"]
    ELSE
    LET r1 == IF rs.players[player_id].protected
              THEN emit([rs EXCEPT !.players[player_id].protected = FALSE],
                        [kind |-> "protection_ended", player_id |-> player_id])
              ELSE rs
    IN  IF r1.deck = <<>>
        THEN [round |-> emit(r1, [kind |-> "deck_empty"]), ret |-> "False"]
        ELSE LET drawn == Last(r1.deck)
             IN  [round |-> emit([r1 EXCEPT !.players[player_id].hand = Append(@, drawn)],
                                 [kind |-> "draw", player_id |-> player_id,
                                  card |-> drawn]),
                  ret |-> "True"]

start_turn(rs, player_id) ==
    IF _find_player(rs, player_id) = NoId THEN [round |-> rs, ret |-> "RulesError"]
    ELSE IF rs.players[player_id].eliminated THEN [round |-> rs, ret |-> "RulesError"]
    ELSE
    LET r1 == IF rs.players[player_id].protected
              THEN emit([rs EXCEPT !.players[player_id].protected = FALSE],
                        [kind |-> "protection_ended", player_id |-> player_id])
              ELSE rs
    IN  IF r1.deck = <<>>
        THEN [round |-> emit(r1, [kind |-> "deck_empty"]), ret |-> "False"]
        ELSE LET drawn == Last(r1.deck)
             IN  [round |-> emit([r1 EXCEPT !.deck = Front(@),
                                            !.players[player_id].hand = Append(@, drawn)],
                                 [kind |-> "draw", player_id |-> player_id,
                                  card |-> drawn]),
                  ret |-> "True"]

\* as apply_action, but the target is looked up after the card has left the hand
apply_action_late_lookup(rs, action) ==
    IF validate_action(rs, action) # "None"
    THEN [round |-> rs, ret |-> "RulesError"]
    ELSE
    LET player == action.player_id
        r1 == emit([rs EXCEPT !.players[player].hand = Remove(@, action.card),
                              !.players[player].discard = Append(@, action.card)],
                   [kind |-> "play", player_id |-> player, card |-> action.card])
    IN  IF action.target_id # NoId /\ _find_player(rs, action.target_id) = NoId
        THEN [round |-> r1, ret |-> "RulesError"]
        ELSE [round |-> r1, ret |-> "None"]

\* [round, ret]: ret is "None" (the event log is returned) or "RulesError"
apply_action(rs, action) ==
    IF validate_action(rs, action) # "None"
    THEN [round |-> rs, ret |-> "RulesError"]
    ELSE IF action.target_id # NoId /\ _find_player(rs, action.target_id) = NoId
    THEN [round |-> rs, ret |-> "RulesError"]
    ELSE
    LET player == action.player_id
        target == action.target_id
        r1 == emit([rs EXCEPT !.players[player].hand = Remove(@, action.card),
                              !.players[player].discard = Append(@, action.card)],
                   [kind |-> "play", player_id |-> player, card |-> action.card])
        r2 == CASE action.card = GUARD    -> _resolve_guard(r1, player, target, action.guess)
                [] action.card = PRIEST   -> _resolve_priest(r1, player, target)
                [] action.card = BARON    -> _resolve_baron(r1, player, target)
                [] action.card = HANDMAID ->
                       emit([r1 EXCEPT !.players[player].protected = TRUE],
                            [kind |-> "protected", player_id |-> player])
                [] action.card = PRINCE   -> _resolve_prince(r1, player, target)
                [] action.card = KING     -> _resolve_king(r1, player, target)
                [] action.card = COUNTESS ->
                       emit(r1, [kind |-> "countess_no_effect", player_id |-> player])
                [] action.card = PRINCESS ->
                       _eliminate_player(r1, player, "played_princess")
    IN  [round |-> r2, ret |-> "None"]

\* as advance_turn, but the next seat is taken whoever sits there
advance_turn_next_seat(rs) ==
    LET idx         == rs.current_player_idx
        num_players == Cardinality(DOMAIN rs.players)
    IN  IF rs.round_over THEN rs
        ELSE [rs EXCEPT !.current_player_idx = (idx + 1) % num_players]

advance_turn(rs) ==
    LET ps          == rs.players
        idx         == rs.current_player_idx
        num_players == Cardinality(DOMAIN ps)
        live == {k \in 1..num_players : ~ps[(idx + k) % num_players].eliminated}
    IN  IF rs.round_over \/ live = {} THEN rs
        ELSE [rs EXCEPT !.current_player_idx =
                 (idx + (CHOOSE k \in live : \A h \in live : k <= h)) % num_players]

\* seats of the non-eliminated players, in seat order
Active(ps) ==
    SelectSeq([i \in 1..Cardinality(DOMAIN ps) |-> i - 1],
              LAMBDA i : ~ps[i].eliminated)

\* max() of an empty sequence raises ValueError
HighestHandRaises(ps, active) ==
    \A i \in 1..Len(active) : ps[active[i]].hand = <<>>

\* as _determine_highest_hand, but the discards break no tie
_determine_highest_hand_no_tiebreak(ps, active) ==
    LET holding(i)   == ps[i].hand # <<>>
        best_value   == Max({ps[active[i]].hand[1] :
                                i \in {j \in 1..Len(active) : holding(active[j])}})
    IN  SelectSeq(active, LAMBDA i : holding(i) /\ ps[i].hand[1] = best_value)

_determine_highest_hand(ps, active) ==
    LET holding(i)   == ps[i].hand # <<>>
        best_value   == Max({ps[active[i]].hand[1] :
                                i \in {j \in 1..Len(active) : holding(active[j])}})
        candidates   == SelectSeq(active,
                            LAMBDA i : holding(i) /\ ps[i].hand[1] = best_value)
        best_discard == Max({SumSeq(ps[candidates[i]].discard) :
                                i \in 1..Len(candidates)})
    IN  IF Len(candidates) <= 1 THEN candidates
        ELSE SelectSeq(candidates, LAMBDA i : SumSeq(ps[i].discard) = best_discard)

\* as the for loop over the winners, but the first winner is awarded twice
AwardTokens_twice(rs, winners) ==
    IF winners = <<>> THEN rs
    ELSE LET w == Head(winners)
         IN  emit([rs EXCEPT !.players[w].tokens = @ + 2],
                  [kind |-> "token_awarded", player_id |-> w,
                   tokens |-> rs.players[w].tokens + 2])

\* as the for loop over the winners, but no token is awarded
AwardTokens_none(rs, winners) == rs

\* the for loop over the winners: one token and one token_awarded each
RECURSIVE AwardTokens(_, _)
AwardTokens(rs, winners) ==
    IF winners = <<>> THEN rs
    ELSE LET w  == Head(winners)
             r1 == [rs EXCEPT !.players[w].tokens = @ + 1]
         IN  AwardTokens(emit(r1, [kind |-> "token_awarded", player_id |-> w,
                                   tokens |-> r1.players[w].tokens]),
                         Tail(winners))

\* what check_round_end does with the winners it settled on; pick is what
\* rng.choice returns
EndRound(rs, winners, pick) ==
    LET r1 == emit([rs EXCEPT !.round_over = TRUE],
                   [kind |-> "round_end", winners |-> winners])
        r2 == AwardTokens(r1, winners)
    IN  IF winners # <<>> THEN [r2 EXCEPT !.next_start_player_id = pick] ELSE r2

\* as check_round_end, but an exhausted deck does not end the round
check_round_end_one_left(rs, pick) ==
    LET active == Active(rs.players)
    IN  IF rs.round_over THEN [round |-> rs, ret |-> "None"]
        ELSE IF Len(active) <= 1
        THEN [round |-> EndRound(rs, active, pick), ret |-> "None"]
        ELSE [round |-> rs, ret |-> "None"]

\* [round, ret]: ret is "None" (the event log is returned) or "ValueError"
check_round_end(rs, pick) ==
    LET active == Active(rs.players)
    IN  IF rs.round_over THEN [round |-> rs, ret |-> "None"]
        ELSE IF Len(active) <= 1
        THEN [round |-> EndRound(rs, active, pick), ret |-> "None"]
        ELSE IF rs.deck = <<>>
        THEN IF HighestHandRaises(rs.players, active)
             THEN [round |-> rs, ret |-> "ValueError"]
             ELSE [round |-> EndRound(rs, _determine_highest_hand(rs.players, active),
                                      pick),
                   ret |-> "None"]
        ELSE [round |-> rs, ret |-> "None"]

\* the values rng.choice can return in check_round_end (NoId: it is not called)
Picks(rs) ==
    LET active  == Active(rs.players)
        winners == IF Len(active) <= 1 THEN active
                   ELSE IF rs.deck = <<>> /\ ~HighestHandRaises(rs.players, active)
                   THEN _determine_highest_hand(rs.players, active)
                   ELSE <<>>
    IN  IF rs.round_over \/ winners = <<>> THEN {NoId}
        ELSE {winners[i] : i \in 1..Len(winners)}

\* as game_over, but the target has to be passed, not reached
game_over_passed(rs) == \E i \in DOMAIN rs.players : rs.players[i].tokens > rs.target_tokens

game_over(rs) == \E i \in DOMAIN rs.players : rs.players[i].tokens >= rs.target_tokens

\* as _choose_start_player_index, but the start seat is always drawn
_choose_start_player_index_drawn(rs, idx) == idx

_choose_start_player_index(rs, idx) ==
    IF rs.next_start_player_id = NoId THEN idx       \* rng.randrange(len(players))
    ELSE IF rs.next_start_player_id \in DOMAIN rs.players THEN rs.next_start_player_id
    ELSE 0

\* setup_round(game_state, rng, setup): k is the shuffle rng.shuffle produces,
\* idx the seat rng.randrange returns
\* as setup_round, but every player starts the round without tokens
setup_round_reset_tokens(rs, k, setup, idx) ==
    LET d0    == build_deck(k)
        size  == Len(d0)
        down  == setup.burn_face_down
        up    == setup.burn_face_up
        num   == Cardinality(DOMAIN rs.players)
        start == _choose_start_player_index(rs, idx)
        rn    == rs.round_number + 1
        fup   == Reverse(SubSeq(d0, size - down - up + 1, size - down))
    IN  [rs EXCEPT
            !.players = [i \in DOMAIN rs.players |->
                            [hand |-> <<d0[size - down - up - i]>>, discard |-> <<>>,
                             tokens |-> 0,
                             protected |-> FALSE, eliminated |-> FALSE]],
            !.deck    = SubSeq(d0, 1, size - down - up - num),
            !.burned  = Reverse(SubSeq(d0, size - down + 1, size)),
            !.face_up = fup,
            !.current_player_idx = start,
            !.round_number = rn,
            !.round_over = FALSE,
            !.events = <<[kind |-> "round_start", round |-> rn,
                          start_player_id |-> start]>>
                       \o (IF fup # <<>> THEN <<[kind |-> "face_up", cards |-> fup]>>
                           ELSE <<>>)]

setup_round(rs, k, setup, idx) ==
    LET d0    == build_deck(k)
        size  == Len(d0)
        down  == setup.burn_face_down
        up    == setup.burn_face_up
        num   == Cardinality(DOMAIN rs.players)
        start == _choose_start_player_index(rs, idx)
        rn    == rs.round_number + 1
        fup   == Reverse(SubSeq(d0, size - down - up + 1, size - down))
    IN  [rs EXCEPT
            !.players = [i \in DOMAIN rs.players |->
                            [hand |-> <<d0[size - down - up - i]>>, discard |-> <<>>,
                             tokens |-> rs.players[i].tokens,
                             protected |-> FALSE, eliminated |-> FALSE]],
            !.deck    = SubSeq(d0, 1, size - down - up - num),
            !.burned  = Reverse(SubSeq(d0, size - down + 1, size)),
            !.face_up = fup,
            !.current_player_idx = start,
            !.round_number = rn,
            !.round_over = FALSE,
            !.events = <<[kind |-> "round_start", round |-> rn,
                          start_player_id |-> start]>>
                       \o (IF fup # <<>> THEN <<[kind |-> "face_up", cards |-> fup]>>
                           ELSE <<>>)]

\* the state new_game(names) builds for m names: no round yet
NewGame(m) ==
    [players |-> new_game(m), target_tokens |-> default_target_tokens(m),
     round_number |-> 0, next_start_player_id |-> NoId,
     deck |-> <<>>, burned |-> <<>>, face_up |-> <<>>,
     current_player_idx |-> 0, events |-> <<>>, round_over |-> FALSE]

----------------------------------------------------------------------------
(* Inputs *)

ToSet(s) == {s[i] : i \in 1..Len(s)}

\* player counts of the games explored
PlayerCounts == {2, 3}

\* setup_round's setup argument: overrides that burn face-up all of the deck,
\* or for two players all but one card of it, so that a round is a few calls
\* long
SetupInputs(m) ==
    {SetupConfig(1, 15 - m)} \cup (IF m = 2 THEN {SetupConfig(1, 14 - m)} ELSE {})

\* guesses a Guard action may carry
Guesses == {NoCard, GUARD, PRIEST, BARON}

\* actions handed to validate_action / apply_action; NumPlayers is an id no
\* player has
ActionInputs ==
    {Action(p, c, t, g) :
        p \in Ids, c \in CardType \ {GUARD}, t \in Ids \cup {NoId}, g \in {NoCard}}
    \cup {Action(p, GUARD, t, g) : p \in Ids, t \in Ids \cup {NoId}, g \in Guesses}
    \cup {Action(p, c, NumPlayers, NoCard) : p \in Ids, c \in {HANDMAID, PRINCE}}
    \cup {Action(NumPlayers, GUARD, 0, PRIEST)}

----------------------------------------------------------------------------
(* Engine calls as steps *)

RoundExists == round_number > 0     \* GameState.round_state is not None

Outcome(call, ret) == [call |-> call, ret |-> ret]

Is(rs) ==
    /\ players = rs.players
    /\ target_tokens = rs.target_tokens
    /\ round_number = rs.round_number
    /\ next_start_player_id = rs.next_start_player_id
    /\ deck = rs.deck
    /\ burned = rs.burned
    /\ face_up = rs.face_up
    /\ current_player_idx = rs.current_player_idx
    /\ events = rs.events
    /\ round_over = rs.round_over

Becomes(rs) ==
    /\ players' = rs.players
    /\ target_tokens' = rs.target_tokens
    /\ round_number' = rs.round_number
    /\ next_start_player_id' = rs.next_start_player_id
    /\ deck' = rs.deck
    /\ burned' = rs.burned
    /\ face_up' = rs.face_up
    /\ current_player_idx' = rs.current_player_idx
    /\ events' = rs.events
    /\ round_over' = rs.round_over

\* idx is used only when no start player is set
StartSeats == IF next_start_player_id = NoId THEN Ids ELSE {0}

SetupRound(k, setup, idx) ==
    /\ round_number < MaxRounds
    /\ Becomes(setup_round(State, k, setup, idx))
    /\ result' = Outcome("setup_round", "None")

StartTurn(player_id) ==
    LET out == start_turn(State, player_id)
    IN  /\ RoundExists
        /\ Becomes(out.round)
        /\ result' = Outcome("start_turn", out.ret)

ApplyAction(action) ==
    LET out == apply_action(State, action)
    IN  /\ RoundExists
        /\ Becomes(out.round)
        /\ result' = Outcome("apply_action", out.ret)

AdvanceTurn ==
    /\ RoundExists
    /\ Becomes(advance_turn(State))
    /\ result' = Outcome("advance_turn", "None")

CheckRoundEnd(pick) ==
    LET out == check_round_end(State, pick)
    IN  /\ RoundExists
        /\ Becomes(out.round)
        /\ result' = Outcome("check_round_end", out.ret)

----------------------------------------------------------------------------
(* Specification: any sequence of engine calls on the first round of a game *)

Init ==
    /\ \E m \in PlayerCounts : Is(NewGame(m))
    /\ result = Outcome("new_game", "None")
    /\ pc = "engine"

\* the exploration's cut-off, not a condition of the code
Explored == Len(events) < MaxEvents

Next ==
    \/ /\ ~RoundExists
       /\ \E k \in 1..NumShuffles, setup \in SetupInputs(NumPlayers), idx \in StartSeats :
             SetupRound(k, setup, idx)
       /\ pc' = pc
    \/ /\ \E p \in Ids \cup {NumPlayers} : Explored /\ StartTurn(p)
       /\ pc' = pc
    \/ /\ \E a \in ActionInputs : Explored /\ ApplyAction(a)
       /\ pc' = pc
    \/ /\ AdvanceTurn
       /\ pc' = pc
    \/ /\ \E pick \in Picks(State) : Explored /\ CheckRoundEnd(pick)
       /\ pc' = pc

Spec == Init /\ [][Next]_vars

----------------------------------------------------------------------------
(* Specification: rounds dealt with the default setup (setup_round called
   with setup = None) for every supported number of players; the players
   play the card they were dealt, and the next round is set up once the
   round is over *)

SetupInit ==
    /\ \E m \in SupportedPlayers : Is(NewGame(m))
    /\ result = Outcome("new_game", "None")
    /\ pc = "engine"

SetupNext ==
    \/ /\ ~RoundExists \/ round_over
       /\ \E k \in 1..NumShuffles, idx \in StartSeats :
             SetupRound(k, default_setup(NumPlayers), idx)
       /\ pc' = pc
    \/ /\ \E a \in ActionInputs : Explored /\ ApplyAction(a)
       /\ pc' = pc
    \/ /\ \E pick \in Picks(State) : CheckRoundEnd(pick)
       /\ pc' = pc

SpecSetup == SetupInit /\ [][SetupNext]_vars

----------------------------------------------------------------------------
(* The terminal driver: cli/main.py main and _play_turn *)

CliPlayerCounts == {2}

Current == current_player_idx      \* round_state.players[current_player_idx].id

\* what _play_turn can submit: a legal card of the hand, a target picked from
\* valid_targets when there is one (always, for the Prince), a guess other
\* than Guard when a target was picked for a Guard
CliActions(p) ==
    {Action(p, c, t, g) :
        c \in ToSet(legal_play_cards(players[p].hand)),
        t \in Ids \cup {NoId},
        g \in Guesses}

CliChoice(a) ==
    LET targeted == a.card \in {GUARD, PRIEST, BARON, PRINCE, KING}
        targets  == IF targeted THEN valid_targets(State, a.player_id, a.card) ELSE <<>>
    IN  /\ IF targeted /\ (targets # <<>> \/ a.card = PRINCE)
           THEN In(a.target_id, targets)
           ELSE a.target_id = NoId
        /\ IF a.card = GUARD /\ a.target_id # NoId
           THEN a.guess \notin {NoCard, GUARD}
           ELSE a.guess = NoCard

CliInit ==
    /\ \E m \in CliPlayerCounts, first \in 0..3 :
          /\ first < m                                \* _prompt_start_player
          /\ Is([NewGame(m) EXCEPT !.next_start_player_id = first])
    /\ result = Outcome("new_game", "None")
    /\ pc = "game_loop"

\* while not game_over(game_state): round_state = setup_round(game_state, rng)
CliSetupRound ==
    /\ pc = "game_loop"
    /\ \E k \in 1..NumShuffles, idx \in StartSeats :
          SetupRound(k, default_setup(NumPlayers), idx)
    /\ pc' = "round_loop"

\* the top of the inner loop: leave it when the round is over, step over an
\* eliminated seat, else start_turn
CliStartTurn ==
    /\ pc = "round_loop"
    /\ IF round_over
       THEN /\ pc' = IF game_over(State) THEN "done" ELSE "game_loop"
            /\ UNCHANGED <<stateVars, result>>
       ELSE IF players[Current].eliminated
       THEN AdvanceTurn /\ pc' = "round_loop"
       ELSE /\ StartTurn(Current)
            /\ pc' = IF result'.ret = "True" THEN "play_turn" ELSE "deck_empty"

\* _play_turn: prompts until apply_action accepts
CliPlayTurn ==
    /\ pc = "play_turn"
    /\ \E a \in CliActions(Current) : CliChoice(a) /\ ApplyAction(a)
    /\ pc' = IF result'.ret = "RulesError" THEN "play_turn" ELSE "check_round_end"

\* check_round_end after the play, or after a start_turn that found no card
\* (followed by break, which leaves the inner loop)
CliCheckRoundEnd ==
    /\ pc \in {"check_round_end", "deck_empty"}
    /\ \E pick \in Picks(State) :
          /\ CheckRoundEnd(pick)
          /\ pc' = IF result'.ret = "ValueError" THEN "raised"
                   ELSE IF pc = "deck_empty"
                   THEN (IF game_over(check_round_end(State, pick).round)
                         THEN "done" ELSE "game_loop")
                   ELSE IF round_over' THEN "round_loop" ELSE "advance_turn"

CliAdvanceTurn ==
    /\ pc = "advance_turn"
    /\ AdvanceTurn
    /\ pc' = "round_loop"

CliNext ==
    \/ CliSetupRound
    \/ CliStartTurn
    \/ CliPlayTurn
    \/ CliCheckRoundEnd
    \/ CliAdvanceTurn

SpecCli == CliInit /\ [][CliNext]_vars

\* the first round of a game under the loop of main
FirstRoundSetup == round_number = 0 /\ CliSetupRound

FirstRoundNext ==
    \/ FirstRoundSetup
    \/ CliStartTurn
    \/ CliPlayTurn
    \/ CliCheckRoundEnd
    \/ CliAdvanceTurn

\* the loop of main keeps running: the process is not suspended for ever, and
\* _play_turn returns because an accepted action is submitted in the end
SpecFirstRound == CliInit /\ [][FirstRoundNext]_vars /\ WF_vars(FirstRoundNext)

----------------------------------------------------------------------------
(* Specification: the deciding round of a two-player game.  Both players are
   one token short of target_tokens after twelve rounds won in turn; the
   round is driven as main drives it, dealt with the default setup or with
   all but two cards of the deck face up. *)

\* the shuffle of ShuffleSteps that deals Guards only
GuardsShuffle == 9

MatchShuffles == 1..NumShuffles \cup {GuardsShuffle}

MatchSetups == {default_setup(2), SetupConfig(1, 11)}

MatchPoint(first) ==
    [NewGame(2) EXCEPT
        !.players = [i \in DOMAIN @ |-> [@[i] EXCEPT !.tokens = default_target_tokens(2) - 1]],
        !.round_number = 2 * (default_target_tokens(2) - 1),
        !.next_start_player_id = first]

MatchInit ==
    /\ \E first \in 0..1 : Is(MatchPoint(first))
    /\ result = Outcome("check_round_end", "None")
    /\ pc = "game_loop"

\* while not game_over(game_state): round_state = setup_round(game_state, rng)
MatchSetupRound ==
    /\ pc = "game_loop"
    /\ ~game_over(State)
    /\ \E k \in MatchShuffles, setup \in MatchSetups, idx \in StartSeats :
          Becomes(setup_round(State, k, setup, idx))
    /\ result' = Outcome("setup_round", "None")
    /\ pc' = "round_loop"

MatchNext ==
    \/ MatchSetupRound
    \/ CliStartTurn
    \/ CliPlayTurn
    \/ CliCheckRoundEnd
    \/ CliAdvanceTurn

SpecMatch == MatchInit /\ [][MatchNext]_vars

\* the loop of main keeps running, and _play_turn returns because an accepted
\* action is submitted in the end
SpecMatchLive == SpecMatch /\ WF_vars(MatchNext)

----------------------------------------------------------------------------
(* The single-table HTTP session: server.py GameSession.  Every request runs
   under SESSION.lock, so a request is one step. *)

ServerPlayerCounts == {2}

\* GameSession.__init__ and reset(names): new_game, then setup_round
SessionNew(m, k, idx) == setup_round(NewGame(m), k, default_setup(m), idx)

ServerInit ==
    /\ \E k \in 1..NumShuffles, idx \in 0..1 : Is(SessionNew(2, k, idx))
    /\ result = Outcome("GameSession", "None")
    /\ pc = "server"

\* POST /api/new
SessionReset ==
    /\ \E m \in ServerPlayerCounts, k \in 1..NumShuffles, idx \in 0..3 :
          idx < m /\ Becomes(SessionNew(m, k, idx))
    /\ result' = Outcome("api_new", "None")
    /\ pc' = pc

\* the message of the RulesError GameSession.start_turn and GameSession.play
\* raise before they call the engine, "None" when they go on
session_refusal(rs, player_id) ==
    IF rs.current_player_idx # player_id THEN "Not your turn." ELSE "None"

\* GameSession.start_turn: [round, ret], ret "None" or what was raised
session_start_turn(rs, player_id, pick) ==
    IF rs.current_player_idx # player_id
    THEN [round |-> rs, ret |-> "RulesError"]          \* "Not your turn."
    ELSE
    LET out == start_turn(rs, player_id)
    IN  IF out.ret = "RulesError" THEN out
        ELSE IF out.ret = "False" THEN check_round_end(out.round, pick)
        ELSE [round |-> out.round, ret |-> "None"]

\* GameSession.play
session_play(rs, action_in, pick) ==
    IF rs.current_player_idx # action_in.player_id
    THEN [round |-> rs, ret |-> "RulesError"]          \* "Not your turn."
    ELSE
    LET applied == apply_action(rs, action_in)
        checked == check_round_end(applied.round, pick)
    IN  IF applied.ret = "RulesError" THEN applied
        ELSE IF checked.ret = "ValueError" THEN checked
        ELSE [round |-> advance_turn(checked.round), ret |-> "None"]

\* the round check_round_end sees inside the two requests
AfterStart(rs, player_id) == start_turn(rs, player_id).round
AfterApply(rs, action_in) == apply_action(rs, action_in).round

\* POST /api/start
SessionStartTurn(player_id) ==
    /\ \E pick \in Picks(AfterStart(State, player_id)) :
          LET out == session_start_turn(State, player_id, pick)
          IN  Becomes(out.round) /\ result' = Outcome("api_start", out.ret)
    /\ pc' = pc

\* POST /api/play
SessionPlay(action_in) ==
    /\ \E pick \in Picks(AfterApply(State, action_in)) :
          LET out == session_play(State, action_in, pick)
          IN  Becomes(out.round) /\ result' = Outcome("api_play", out.ret)
    /\ pc' = pc

\* as SessionNextRound, but the next round is set up whether or not the
\* current one is over
SessionNextRound_anytime ==
    /\ round_number < MaxRounds
    /\ \E k \in 1..NumShuffles, idx \in StartSeats :
          Becomes(setup_round(State, k, default_setup(NumPlayers), idx))
    /\ result' = Outcome("api_next_round", "None")
    /\ pc' = pc

\* POST /api/next_round
SessionNextRound ==
    /\ IF ~round_over
       THEN /\ result' = Outcome("api_next_round", "RulesError")  \* "Round is not over."
            /\ UNCHANGED stateVars
       ELSE /\ round_number < MaxRounds
            /\ \E k \in 1..NumShuffles, idx \in StartSeats :
                  Becomes(setup_round(State, k, default_setup(NumPlayers), idx))
            /\ result' = Outcome("api_next_round", "None")
    /\ pc' = pc

\* the exploration's cut-off, not a condition of the code
Served == Len(events) < MaxRequests

ServerNext ==
    \/ SessionReset
    \/ \E p \in Ids \cup {NumPlayers} : Served /\ SessionStartTurn(p)
    \/ \E a \in ActionInputs : Served /\ SessionPlay(a)
    \/ SessionNextRound

SpecServer == ServerInit /\ [][ServerNext]_vars

\* The table session after POST /api/new with three names

ThreeInit ==
    /\ \E k \in 1..NumShuffles, idx \in 0..2 : Is(SessionNew(3, k, idx))
    /\ result = Outcome("api_new", "None")
    /\ pc = "server"

\* the requests are explored while the log of the round is short
ThreeServed == Len(events) < MaxRequests - 3

\* the requests of the player whose turn it is
ThreeNext ==
    \/ ThreeServed /\ SessionStartTurn(Current)
    \/ \E a \in {b \in ActionInputs : b.player_id = Current} : ThreeServed /\ SessionPlay(a)
    \/ SessionNextRound

SpecThree == ThreeInit /\ [][ThreeNext]_vars

\* The table session driven by clients that play whenever their seat holds a
\* card and ask for a card only when it holds none: every request here is one
\* the session accepts from the current player.

\* POST /api/start by the current player, whose hand is empty; the session is
\* followed up to its first unhandled exception
EmptyHandedStart ==
    /\ ~round_over
    /\ result.ret # "ValueError"
    /\ players[Current].hand = <<>>
    /\ SessionStartTurn(Current)

\* POST /api/play by the current player, of a card of the hand, without a
\* POST /api/start before it
EmptyHandedPlay(action_in) ==
    /\ ~round_over
    /\ result.ret # "ValueError"
    /\ action_in.player_id = Current
    /\ In(action_in.card, players[Current].hand)
    /\ SessionPlay(action_in)

\* a shuffle that removes the Princess from the round
PrincessOutShuffle == 10

\* GameSession.__init__
EmptyHandedInit ==
    /\ \E k \in 1..NumShuffles \cup {PrincessOutShuffle}, idx \in 0..1 :
          Is(SessionNew(2, k, idx))
    /\ result = Outcome("GameSession", "None")
    /\ pc = "server"

EmptyHandedNext ==
    \/ EmptyHandedStart
    \/ \E a \in ActionInputs : EmptyHandedPlay(a)

SpecEmptyHanded == EmptyHandedInit /\ [][EmptyHandedNext]_vars

----------------------------------------------------------------------------
(* One two-seat lobby game: server.py MultiplayerSession.  Every request runs
   under session.lock, so a request is one step.  pc is "waiting" until the
   second seat is taken (seat_tokens[1] is None) and "ready" from then on. *)

\* what a request may carry as X-Seat-Token: the host's token, the token join
\* hands out, and a string that is no seat's token
SeatTokens == {"host", "guest", "stranger"}

\* token_to_player, NoId for a token it does not hold (AuthError)
_player_id_for_token(seat_token, ready) ==
    IF seat_token = "host" THEN 0
    ELSE IF seat_token = "guest" /\ ready THEN 1
    ELSE NoId

\* the message of the error MultiplayerSession.start_turn and
\* MultiplayerSession.play raise before they call the engine, "None" when
\* they go on
multi_refusal(rs, ready, seat_token) ==
    IF ~ready THEN "Waiting for Player 2 to join."
    ELSE IF _player_id_for_token(seat_token, ready) = NoId THEN "Invalid seat token."
    ELSE IF rs.current_player_idx # _player_id_for_token(seat_token, ready)
    THEN "Not your turn."
    ELSE "None"

\* as multi_start_turn, but any seated player may draw
multi_start_turn_any_seat(rs, ready, seat_token, pick) ==
    IF ~ready THEN [round |-> rs, ret |-> "RulesError"]
    ELSE IF _player_id_for_token(seat_token, ready) = NoId
    THEN [round |-> rs, ret |-> "AuthError"]
    ELSE
    LET player_id == _player_id_for_token(seat_token, ready)
        out       == start_turn(rs, player_id)
    IN  IF out.ret = "RulesError" THEN out
        ELSE IF out.ret = "False" THEN check_round_end(out.round, pick)
        ELSE [round |-> out.round, ret |-> "None"]

\* MultiplayerSession.start_turn: [round, ret]
multi_start_turn(rs, ready, seat_token, pick) ==
    IF ~ready THEN [round |-> rs, ret |-> "RulesError"]      \* _ensure_ready
    ELSE IF _player_id_for_token(seat_token, ready) = NoId
    THEN [round |-> rs, ret |-> "AuthError"]
    ELSE
    LET player_id == _player_id_for_token(seat_token, ready)
    IN  IF rs.current_player_idx # player_id
        THEN [round |-> rs, ret |-> "RulesError"]            \* "Not your turn."
        ELSE
        LET out == start_turn(rs, player_id)
        IN  IF out.ret = "RulesError" THEN out
            ELSE IF out.ret = "False" THEN check_round_end(out.round, pick)
            ELSE [round |-> out.round, ret |-> "None"]

\* MultiplayerSession.play: the acting player is the token's player
multi_play(rs, ready, seat_token, action_in, pick) ==
    IF ~ready THEN [round |-> rs, ret |-> "RulesError"]      \* _ensure_ready
    ELSE IF _player_id_for_token(seat_token, ready) = NoId
    THEN [round |-> rs, ret |-> "AuthError"]
    ELSE
    LET player_id == _player_id_for_token(seat_token, ready)
        action    == Action(player_id, action_in.card, action_in.target_id,
                            action_in.guess)
    IN  IF rs.current_player_idx # player_id
        THEN [round |-> rs, ret |-> "RulesError"]            \* "Not your turn."
        ELSE
        LET applied == apply_action(rs, action)
            checked == check_round_end(applied.round, pick)
        IN  IF applied.ret = "RulesError" THEN applied
            ELSE IF checked.ret = "ValueError" THEN checked
            ELSE [round |-> advance_turn(checked.round), ret |-> "None"]

\* MultiplayerSession.next_round; k and idx are what the rng gives setup_round
multi_next_round(rs, ready, seat_token, k, idx) ==
    IF ~ready THEN [round |-> rs, ret |-> "RulesError"]      \* _ensure_ready
    ELSE IF _player_id_for_token(seat_token, ready) = NoId
    THEN [round |-> rs, ret |-> "AuthError"]
    ELSE IF ~rs.round_over
    THEN [round |-> rs, ret |-> "RulesError"]                \* "Round is not over."
    ELSE [round |-> setup_round(rs, k, default_setup(Cardinality(DOMAIN rs.players)), idx),
          ret |-> "None"]

Ready == pc = "ready"

\* what a multiplayer play request carries: card, target and guess
MultiActionInputs == {a \in ActionInputs : a.player_id = 0}

\* the acting player of a request, for the rng.choice of its check_round_end
MultiActor(seat_token) ==
    IF Ready /\ _player_id_for_token(seat_token, Ready) # NoId
    THEN _player_id_for_token(seat_token, Ready)
    ELSE NumPlayers

\* LobbyManager.create: MultiplayerSession.__init__
MultiInit ==
    /\ \E k \in 1..NumShuffles, idx \in 0..1 : Is(SessionNew(2, k, idx))
    /\ result = Outcome("api_multi_create", "None")
    /\ pc = "waiting"

\* POST /api/multi/join
MultiJoin ==
    /\ IF Ready
       THEN /\ result' = Outcome("api_multi_join", "RulesError")
            /\ pc' = pc
       ELSE /\ result' = Outcome("api_multi_join", "None")
            /\ pc' = "ready"
    /\ UNCHANGED stateVars

\* POST /api/multi/start
MultiStartTurn(seat_token) ==
    /\ \E pick \in Picks(AfterStart(State, MultiActor(seat_token))) :
          LET out == multi_start_turn(State, Ready, seat_token, pick)
          IN  Becomes(out.round) /\ result' = Outcome("api_multi_start", out.ret)
    /\ pc' = pc

\* POST /api/multi/play
MultiPlay(seat_token, action_in) ==
    /\ \E pick \in Picks(AfterApply(State, [action_in EXCEPT
                                               !.player_id = MultiActor(seat_token)])) :
          LET out == multi_play(State, Ready, seat_token, action_in, pick)
          IN  Becomes(out.round) /\ result' = Outcome("api_multi_play", out.ret)
    /\ pc' = pc

\* POST /api/multi/next_round
MultiNextRound(seat_token) ==
    /\ \E k \in 1..NumShuffles, idx \in StartSeats :
          LET out == multi_next_round(State, Ready, seat_token, k, idx)
          IN  /\ out.ret = "None" => round_number < MaxRounds
              /\ Becomes(out.round)
              /\ result' = Outcome("api_multi_next_round", out.ret)
    /\ pc' = pc

\* the requests of a seat are explored while the log of the round is short
MultiServed == Len(events) < MaxRequests - 2

MultiNext ==
    \/ MultiJoin
    \/ \E t \in SeatTokens : MultiServed /\ MultiStartTurn(t)
    \/ \E t \in SeatTokens, a \in MultiActionInputs : MultiServed /\ MultiPlay(t, a)
    \/ \E t \in SeatTokens : MultiNextRound(t)

SpecMulti == MultiInit /\ [][MultiNext]_vars

----------------------------------------------------------------------------
(* Properties *)

HasEvent(kind) == \E i \in 1..Len(events) : events[i].kind = kind

\* events of that kind that carry that reason
HasEventFor(kind, reason) ==
    \E i \in 1..Len(events) :
        /\ events[i].kind = kind
        /\ "reason" \in DOMAIN events[i]
        /\ events[i].reason = reason

RECURSIVE Flatten(_)
Flatten(ss) == IF ss = <<>> THEN <<>> ELSE Head(ss) \o Flatten(Tail(ss))

\* every card of the round, pile by pile
AllCards ==
    deck \o burned \o face_up
    \o Flatten([i \in 1..NumPlayers |-> players[i - 1].hand])
    \o Flatten([i \in 1..NumPlayers |-> players[i - 1].discard])

\* C1: card conservation.  In every state of a round, whatever engine calls
\* led to it, deck, burned, face_up, the hands and the discards together hold
\* exactly the 16 cards of the catalog: 5 Guards, 2 Priests, 2 Barons,
\* 2 Handmaids, 2 Princes, 1 King, 1 Countess, 1 Princess.
C1_Conservation ==
    RoundExists => \A c \in CardType : Count(AllCards, c) = CARD_COUNTS[c]

\* a Prince has made its target draw the burned card, the deck being empty
C1_Witness ==
    /\ RoundExists
    /\ deck = <<>>
    /\ burned = <<>>
    /\ HasEventFor("draw", "prince")
    /\ \A c \in CardType : Count(AllCards, c) = CARD_COUNTS[c]

\* C2: hand bound.  Under the terminal driver's protocol, between any two
\* engine calls of a round every eliminated player holds no card and every
\* other player holds 1 card, or 2 when that player is the current player and
\* has drawn but not yet played.
C2_HandBound ==
    RoundExists =>
        \A i \in Ids :
            IF players[i].eliminated THEN players[i].hand = <<>>
            ELSE \/ Len(players[i].hand) = 1
                 \/ /\ Len(players[i].hand) = 2
                    /\ i = Current
                    /\ pc = "play_turn"

\* a play has just eliminated a player: the loser's hand is gone, the
\* survivor still holds one card
C2_Witness ==
    /\ pc = "check_round_end"
    /\ \E i \in Ids : players[i].eliminated /\ players[i].hand = <<>>
    /\ \E i \in Ids : ~players[i].eliminated /\ Len(players[i].hand) = 1

\* an action apply_action must refuse: validate_action gives a reason, or the
\* acting player or the target named is not a player of the round
Invalid(rs, a) ==
    \/ a.player_id \notin DOMAIN rs.players
    \/ validate_action(rs, a) # "None"
    \/ a.target_id # NoId /\ a.target_id \notin DOMAIN rs.players

\* C3: validate before mutate.  In every state of a round, apply_action on an
\* invalid action raises RulesError and leaves the whole state (hands,
\* discards, deck, burned, flags, tokens, current_player_idx, round_over, the
\* event log) as it was.  validate_action is a function of the round and the
\* action: it has no state to change.
C3_ValidateBeforeMutate ==
    RoundExists =>
        \A a \in ActionInputs :
            LET out == apply_action(State, a)
            IN  \/ out.ret = "RulesError" /\ out.round = State
                \/ ~Invalid(State, a)

\* apply_action has just refused an action, in a round where some player holds
\* a Handmaid that validate_action would let through with a target that is
\* no player: the refusal that comes after validation
C3_Witness ==
    /\ result = Outcome("apply_action", "RulesError")
    /\ HasEvent("play")
    /\ \E a \in ActionInputs :
          /\ a.player_id \in Ids
          /\ validate_action(State, a) = "None"
          /\ a.target_id \notin Ids \cup {NoId}

\* C4: no double draw.  In the table session, a start request by the current
\* player who already holds the card drawn this turn is answered with an error
\* and leaves that hand at 2 cards.
C4_NoDoubleDraw ==
    [][\A p \in Ids :
          (/\ SessionStartTurn(p)
           /\ p = Current
           /\ ~round_over
           /\ Len(players[p].hand) = 2)
          => (result'.ret = "RulesError" /\ Len(players'[p].hand) = 2)]_vars

\* the hands of 1 or 2 cards
Hands == {<<c>> : c \in CardType} \cup {<<c, d>> : c \in CardType, d \in CardType}

\* C5: Countess force.  For every hand of 1 or 2 cards legal_play_cards is
\* <<Countess>> when the hand holds the Countess with a King or a Prince and
\* the hand itself otherwise; and in every state of a round apply_action
\* refuses a King or a Prince played from a hand that holds the Countess.
C5_CountessForce ==
    /\ \A hand \in Hands :
          legal_play_cards(hand) =
              IF COUNTESS \in ToSet(hand) /\ ToSet(hand) \cap {KING, PRINCE} # {}
              THEN <<COUNTESS>>
              ELSE hand
    /\ RoundExists =>
          \A a \in ActionInputs :
              (/\ a.player_id \in Ids
               /\ a.card \in {KING, PRINCE}
               /\ In(COUNTESS, players[a.player_id].hand))
              => apply_action(State, a) = [round |-> State, ret |-> "RulesError"]

\* a player holds the Countess with a Prince or a King, and apply_action has
\* just refused an action
C5_Witness ==
    /\ result = Outcome("apply_action", "RulesError")
    /\ \E p \in Ids :
          /\ Len(players[p].hand) = 2
          /\ In(COUNTESS, players[p].hand)
          /\ In(PRINCE, players[p].hand) \/ In(KING, players[p].hand)
          /\ legal_play_cards(players[p].hand) = <<COUNTESS>>

Refused(rs, a) == apply_action(rs, a) = [round |-> rs, ret |-> "RulesError"]

\* the Guard actions that guess Guard
SelfGuesses == {a \in ActionInputs : a.card = GUARD /\ a.guess = GUARD}

\* C6 as stated: guard self-guess ban.  In every state of a round, every
\* action with card Guard and guess Guard is refused, also where no valid
\* target exists and the action names no target.
C6_SelfGuessAlwaysRefused ==
    RoundExists => \A a \in SelfGuesses : Refused(State, a)

\* C6 amended: an action with card Guard and guess Guard is refused whenever
\* the acting player's Guard has a valid target; it is accepted exactly when
\* the acting player is in the round, not eliminated, may legally play a Guard
\* of the hand, has no valid target and names no target.
C6_SelfGuessRefusedWithTarget ==
    RoundExists =>
        \A a \in SelfGuesses :
            LET p       == a.player_id
                out     == apply_action(State, a)
                refused == out = [round |-> State, ret |-> "RulesError"]
            IN  IF p \notin Ids THEN refused
                ELSE /\ valid_targets(State, p, GUARD) # <<>> => refused
                     /\ out.ret = "None" <=>
                            /\ ~players[p].eliminated
                            /\ In(GUARD, legal_play_cards(players[p].hand))
                            /\ valid_targets(State, p, GUARD) = <<>>
                            /\ a.target_id = NoId

\* a player who holds a Guard and has a valid target for it, right after
\* apply_action refused an action
C6_Witness ==
    /\ result = Outcome("apply_action", "RulesError")
    /\ \E p \in Ids :
          /\ ~players[p].eliminated
          /\ In(GUARD, legal_play_cards(players[p].hand))
          /\ valid_targets(State, p, GUARD) # <<>>
          /\ Refused(State, Action(p, GUARD, valid_targets(State, p, GUARD)[1], GUARD))

C8_ProtectionDuration ==
    RoundExists =>
        /\ \A a \in {b \in ActionInputs : b.card = HANDMAID} :
              LET out == apply_action(State, a)
              IN  out.ret = "None" => out.round.players[a.player_id].protected
        /\ \A p \in Ids :
              players[p].protected =>
                  /\ \A q \in (Ids \cup {NumPlayers}) \ {p} :
                        start_turn(State, q).round.players[p].protected
                  /\ \A a \in ActionInputs :
                        a.player_id # p =>
                            apply_action(State, a).round.players[p].protected
                  /\ advance_turn(State).players[p].protected
                  /\ \A pick \in Picks(State) :
                        check_round_end(State, pick).round.players[p].protected
                  /\ LET out == start_turn(State, p)
                         n   == Len(events)
                     IN  /\ out.ret \in {"True", "False"}
                         /\ ~out.round.players[p].protected
                         /\ Len(out.round.events) = n + 2
                         /\ out.round.events[n + 1] =
                                [kind |-> "protection_ended", player_id |-> p]
                         /\ out.round.events[n + 2].kind \in {"draw", "deck_empty"}
                         /\ SubSeq(out.round.events, 1, n) = events

\* p played the Handmaid, another player played after that, and then p's
\* start_turn ended the protection
C8_Witness ==
    \E p \in Ids : \E i, j, k \in 1..Len(events) :
        /\ i < j /\ j < k
        /\ events[i] = [kind |-> "protected", player_id |-> p]
        /\ events[j].kind = "play" /\ events[j].player_id # p
        /\ events[k] = [kind |-> "protection_ended", player_id |-> p]
        /\ k = Len(events) - 1
        /\ ~players[p].protected
        /\ result.call = "start_turn"

\* the non-eliminated players
ActiveSet == {i \in Ids : ~players[i].eliminated}

\* what a check_round_end that ends the round leaves: the flag, and round_end
\* as the first event it emits
Ends(out) ==
    /\ out.ret = "None"
    /\ out.round.round_over
    /\ Len(out.round.events) > Len(events)
    /\ out.round.events[Len(events) + 1].kind = "round_end"

\* C9: round-end condition.  In every state of a round that is not over,
\* check_round_end ends the round (sets round_over, emits round_end) when at
\* most one player is not eliminated or the deck is empty, and otherwise
\* returns leaving the state as it was; and after a start_turn that found the
\* deck empty and returned False, check_round_end ends the round.
C9_RoundEndCondition ==
    (RoundExists /\ ~round_over) =>
        /\ \A pick \in Picks(State) :
              IF Cardinality(ActiveSet) <= 1 \/ deck = <<>>
              THEN Ends(check_round_end(State, pick))
              ELSE check_round_end(State, pick) = [round |-> State, ret |-> "None"]
        /\ \A p \in Ids :
              start_turn(State, p).ret = "False" =>
                  \A pick \in Picks(start_turn(State, p).round) :
                      LET out == check_round_end(start_turn(State, p).round, pick)
                      IN  out.ret = "None" /\ out.round.round_over

\* check_round_end has just raised ValueError: the deck is empty, two players
\* or more are in the round, none of them holds a card, and the round is
\* not over
C9_Raised ==
    /\ result = Outcome("check_round_end", "ValueError")
    /\ ~round_over
    /\ deck = <<>>
    /\ Cardinality(ActiveSet) >= 2
    /\ \A i \in ActiveSet : players[i].hand = <<>>

\* the winners of a round that ends with the deck exhausted: of the players in
\* the round who hold a card, those with the highest card, and of those the
\* ones with the highest sum of discards
Holders == {i \in ActiveSet : players[i].hand # <<>>}

Highest == {i \in Holders : \A j \in Holders : players[j].hand[1] <= players[i].hand[1]}

Winners ==
    {i \in Highest :
        \A j \in Highest : SumSeq(players[j].discard) <= SumSeq(players[i].discard)}

\* C10: winner selection.  In every state of a round that is not over where
\* no player holds more than one card: when the deck is empty, two players or
\* more are in the round and one of them holds a card, check_round_end names
\* as winners exactly the players of Winners, each once, and gives each one
\* token and nobody else any; when one player is in the round, that player is
\* the only winner (and when none is, there is no winner).
C10_WinnerSelection ==
    (/\ RoundExists
     /\ ~round_over
     /\ \A i \in Ids : Len(players[i].hand) <= 1) =>
        \A pick \in Picks(State) :
            LET out     == check_round_end(State, pick)
                winners == out.round.events[Len(events) + 1].winners
                expect  == IF Cardinality(ActiveSet) <= 1 THEN ActiveSet ELSE Winners
            IN  ((Cardinality(ActiveSet) >= 2 /\ deck = <<>> /\ Holders # {})
                 \/ Cardinality(ActiveSet) <= 1) =>
                    /\ Ends(out)
                    /\ ToSet(winners) = expect
                    /\ Len(winners) = Cardinality(expect)
                    /\ \A i \in Ids :
                          out.round.players[i].tokens =
                              players[i].tokens + (IF i \in expect THEN 1 ELSE 0)

\* a round has just ended with the deck exhausted and two players tied on the
\* card in hand: the one with the higher discards is the only winner
C10_Witness ==
    /\ result = Outcome("check_round_end", "None")
    /\ round_over
    /\ deck = <<>>
    /\ \E i \in ActiveSet, j \in ActiveSet :
          /\ Len(players[i].hand) = 1 /\ Len(players[j].hand) = 1
          /\ players[i].hand[1] = players[j].hand[1]
          /\ SumSeq(players[i].discard) > SumSeq(players[j].discard)
          /\ players[i].tokens = 1 /\ players[j].tokens = 0
          /\ \E e \in 1..Len(events) :
                events[e].kind = "round_end" /\ events[e].winners = <<i>>

\* positions of the round_end events in a log
RoundEnds(log) == {e \in 1..Len(log) : log[e].kind = "round_end"}

\* what one step of a round may do to the tokens: nothing, unless it is the
\* step that ends the round, which gives each winner named by round_end one
\* token and leaves the others' tokens alone
TokensStep ==
    round_number' = round_number =>
        IF RoundEnds(events') # {} /\ RoundEnds(events) = {}
        THEN LET winners == events'[CHOOSE e \in RoundEnds(events') : TRUE].winners
             IN  /\ ~round_over /\ round_over'
                 /\ \A i \in Ids :
                       players'[i].tokens =
                           players[i].tokens + Count(winners, i)
                 /\ \A i \in Ids : Count(winners, i) <= 1
        ELSE \A i \in Ids : players'[i].tokens = players[i].tokens

\* C11: tokens are awarded once per round.  In every state of a round the log
\* holds at most one round_end, and holds one exactly when the round is over;
\* once the round is over check_round_end returns leaving the state as it is;
\* and within a round only the step that emits round_end changes any tokens:
\* it gives each of its winners exactly 1 token and the other players none.
C11_TokensOncePerRound ==
    /\ [](RoundExists =>
            /\ Cardinality(RoundEnds(events)) <= 1
            /\ round_over <=> RoundEnds(events) # {}
            /\ round_over =>
                  \A pick \in Picks(State) \cup Ids :
                      check_round_end(State, pick) = [round |-> State, ret |-> "None"])
    /\ [][TokensStep]_vars

\* a round is over with two winners: each has its token, the third player
\* has none, and token_awarded was emitted once for each winner
C11_Witness ==
    /\ round_over
    /\ \E e \in RoundEnds(events) :
          /\ Len(events[e].winners) = 2
          /\ Len(events) = e + 2
          /\ \A i \in Ids :
                players[i].tokens = IF In(i, events[e].winners) THEN 1 ELSE 0
          /\ \E i \in Ids : ~In(i, events[e].winners)

\* C12: Baron outcome.  In every state of a round, for every accepted Baron
\* action that names a target, where the actor holds one card besides the
\* Baron and the target holds one card: the holder of the strictly lower card
\* is eliminated and nobody else's eliminated flag changes; with equal cards
\* nobody's does.
C12_BaronOutcome ==
    RoundExists =>
        \A a \in {b \in ActionInputs : b.card = BARON /\ b.target_id \in Ids} :
            LET p      == a.player_id
                t      == a.target_id
                out    == apply_action(State, a)
                mine   == Remove(players[p].hand, BARON)
                theirs == players[t].hand
            IN  (out.ret = "None" /\ Len(mine) = 1 /\ Len(theirs) = 1) =>
                    \A i \in Ids :
                        out.round.players[i].eliminated =
                            \/ players[i].eliminated
                            \/ i = p /\ mine[1] < theirs[1]
                            \/ i = t /\ theirs[1] < mine[1]

\* a Baron has compared two equal cards and both players are still in the
\* round
C12_Witness ==
    \E e \in 1..Len(events) :
        /\ events[e].kind = "baron_compare"
        /\ events[e].player_card = events[e].target_card
        /\ ~players[events[e].player_id].eliminated
        /\ ~players[events[e].target_id].eliminated
        /\ Last(players[events[e].player_id].discard) = BARON

\* C13: Prince effect.  In every state of a round, for every accepted Prince
\* action whose target holds exactly one card (besides the Prince being
\* played, when the target is the actor): that card goes onto the target's
\* discard; if it is the Princess the target is eliminated, keeps no card and
\* deck and burned are as before; otherwise the target stays in the round and
\* holds exactly the top card of the deck, or with an empty deck the top card
\* of the burn pile, or with both empty nothing, and only the pile drawn from
\* lost that one card.
C13_PrinceEffect ==
    RoundExists =>
        \A a \in {b \in ActionInputs : b.card = PRINCE /\ b.target_id \in Ids} :
            LET p     == a.player_id
                t     == a.target_id
                out   == apply_action(State, a)
                held  == IF t = p THEN Remove(players[t].hand, PRINCE)
                         ELSE players[t].hand
                pile  == IF t = p THEN Append(players[t].discard, PRINCE)
                         ELSE players[t].discard
                after == out.round.players[t]
            IN  (out.ret = "None" /\ Len(held) = 1) =>
                    /\ out.round.face_up = face_up
                    /\ IF held[1] = PRINCESS
                       THEN /\ after.eliminated
                            /\ after.hand = <<>>
                            /\ after.discard = Append(pile, PRINCESS)
                            /\ out.round.deck = deck
                            /\ out.round.burned = burned
                       ELSE /\ ~after.eliminated
                            /\ after.discard = Append(pile, held[1])
                            /\ IF deck # <<>>
                               THEN /\ after.hand = <<Last(deck)>>
                                    /\ out.round.deck = Front(deck)
                                    /\ out.round.burned = burned
                               ELSE IF burned # <<>>
                               THEN /\ after.hand = <<Last(burned)>>
                                    /\ out.round.deck = <<>>
                                    /\ out.round.burned = Front(burned)
                               ELSE /\ after.hand = <<>>
                                    /\ out.round.deck = <<>>
                                    /\ out.round.burned = <<>>

\* a Prince has just made a player discard with the deck and the burn pile
\* both empty: the player is still in the round, with no card
C13_Witness ==
    /\ result = Outcome("apply_action", "None")
    /\ deck = <<>>
    /\ burned = <<>>
    /\ Last(events).kind = "discard"
    /\ Last(events).reason = "prince"
    /\ Last(events).card # PRINCESS
    /\ ~players[Last(events).player_id].eliminated
    /\ players[Last(events).player_id].hand = <<>>

\* what one step of a round may do to the piles set aside: nothing to face_up;
\* nothing to burned, unless the deck is empty and the step ends by emitting
\* the draw of a Prince replacement, which is the card that left the top of
\* burned
PilesStep ==
    round_number' = round_number =>
        /\ face_up' = face_up
        /\ burned' # burned =>
              /\ deck = <<>> /\ deck' = <<>>
              /\ burned # <<>>
              /\ burned' = Front(burned)
              /\ Len(events') > Len(events)
              /\ Last(events').kind = "draw"
              /\ "reason" \in DOMAIN Last(events')
              /\ Last(events').reason = "prince"
              /\ Last(events').card = Last(burned)

\* C14: burned and face_up are frozen but for the Prince fallback.  Within a
\* round no step changes face_up, and the only steps that change burned are
\* Prince replacements drawn with the deck empty; and in every state of a
\* round start_turn leaves burned and face_up as they are, and with the deck
\* empty leaves every hand as it is.
C14_PilesFrozen ==
    /\ [](RoundExists =>
            \A p \in Ids \cup {NumPlayers} :
                LET out == start_turn(State, p).round
                IN  /\ out.burned = burned
                    /\ out.face_up = face_up
                    /\ deck = <<>> =>
                          \A i \in Ids : out.players[i].hand = players[i].hand)
    /\ [][PilesStep]_vars

\* start_turn found the deck empty and drew nothing, and later a Prince
\* replacement emptied the burn pile; face_up is still what setup_round laid
\* out
C14_Witness ==
    /\ RoundExists
    /\ HasEvent("deck_empty")
    /\ HasEventFor("draw", "prince")
    /\ burned = <<>>
    /\ face_up # <<>>
    /\ events[2] = [kind |-> "face_up", cards |-> face_up]
    /\ \A e \in 1..Len(events) :
          events[e].kind = "draw" => "reason" \in DOMAIN events[e]

\* C15: losing the Princess is elimination.  In every state of a round, a
\* player whose discard holds the Princess is eliminated.
C15_PrincessLoss ==
    RoundExists =>
        \A i \in Ids : In(PRINCESS, players[i].discard) => players[i].eliminated

\* a player eliminated by another card has discarded the Princess on the way
\* out
C15_Witness ==
    \E e \in 1..Len(events) :
        /\ events[e].kind = "discard"
        /\ events[e].card = PRINCESS
        /\ events[e].reason = "elimination"
        /\ In(PRINCESS, players[events[e].player_id].discard)
        /\ players[events[e].player_id].eliminated

\* the ids valid_targets returns
TargetIds(p, card) ==
    LET valid == valid_targets(State, p, card) IN {valid[k] : k \in DOMAIN valid}

\* the non-eliminated, non-protected players other than p
OpenOthers(p) ==
    {i \in Ids \ {p} : ~players[i].eliminated /\ ~players[i].protected}

\* C16 as stated: for Guard, Priest, Baron and King valid_targets returns the
\* non-eliminated, non-protected players other than the actor, and for Prince
\* those players plus the actor, whoever the actor is.
C16_PrinceAlwaysSelf ==
    RoundExists =>
        \A p \in Ids :
            /\ \A card \in {GUARD, PRIEST, BARON, KING} :
                   TargetIds(p, card) = OpenOthers(p)
            /\ TargetIds(p, PRINCE) = OpenOthers(p) \cup {p}

\* C16 amended: for Guard, Priest, Baron and King valid_targets returns the
\* non-eliminated, non-protected players other than the actor; for Prince it
\* returns those players plus the actor when the actor is not eliminated (a
\* protected actor included), so a non-eliminated actor always has a Prince
\* target; an eliminated actor is left out like every eliminated player.
C16_ValidTargets ==
    RoundExists =>
        \A p \in Ids :
            /\ \A card \in {GUARD, PRIEST, BARON, KING} :
                   TargetIds(p, card) = OpenOthers(p)
            /\ TargetIds(p, PRINCE) =
                   OpenOthers(p) \cup (IF players[p].eliminated THEN {} ELSE {p})
            /\ ~players[p].eliminated => p \in TargetIds(p, PRINCE)

\* every other player is protected, so the actor has no Guard target and is
\* the only Prince target
C16_Witness ==
    /\ RoundExists
    /\ \E p \in Ids :
          /\ ~players[p].eliminated
          /\ \A q \in Ids \ {p} : players[q].protected /\ ~players[q].eliminated
          /\ TargetIds(p, PRINCE) = {p}
          /\ TargetIds(p, GUARD) = {}

\* the action passes the checks validate_action makes before the target: a
\* known, non-eliminated player plays a legal card of the hand
PassesHand(a) ==
    /\ a.player_id \in Ids
    /\ ~players[a.player_id].eliminated
    /\ In(a.card, players[a.player_id].hand)
    /\ In(a.card, legal_play_cards(players[a.player_id].hand))

\* the target an action must carry: one of the open players when there is
\* one, none otherwise
TargetFits(a) ==
    LET open == OpenOthers(a.player_id)
    IN  \/ open # {} /\ a.target_id \in open
        \/ open = {} /\ a.target_id = NoId

\* C17: target validation.  In every state of a round validate_action accepts
\* a Guard, Priest, Baron or King action only if a valid target exists and the
\* target id is one of the valid targets, or no valid target exists and the
\* action carries no target; it accepts a Prince action only if the target id
\* is a valid Prince target.  For an action that passes the hand checks (and,
\* for a Guard, carries a guess other than Guard) that condition is also
\* sufficient.
C17_TargetValidation ==
    RoundExists =>
        \A a \in {b \in ActionInputs :
                    b.player_id \in Ids
                    /\ b.card \in {GUARD, PRIEST, BARON, KING, PRINCE}} :
            LET ok == validate_action(State, a) = "None"
            IN  /\ a.card \in {GUARD, PRIEST, BARON, KING} /\ ok => TargetFits(a)
                /\ a.card = PRINCE /\ ok =>
                       a.target_id \in OpenOthers(a.player_id) \cup {a.player_id}
                /\ /\ PassesHand(a)
                   /\ a.card \in {PRIEST, BARON, KING}
                   /\ TargetFits(a)
                   => ok
                /\ /\ PassesHand(a)
                   /\ a.card = GUARD
                   /\ a.guess \notin {NoCard, GUARD}
                   /\ TargetFits(a)
                   => ok
                /\ /\ PassesHand(a)
                   /\ a.card = PRINCE
                   /\ a.target_id \in OpenOthers(a.player_id) \cup {a.player_id}
                   => ok

\* every other player is protected or eliminated: the actor's targeted card is
\* accepted without a target and refused when it names a protected player
C17_Witness ==
    /\ RoundExists
    /\ \E p \in Ids, q \in Ids, card \in {PRIEST, BARON, KING} :
          /\ PassesHand(Action(p, card, NoId, NoCard))
          /\ OpenOthers(p) = {}
          /\ validate_action(State, Action(p, card, NoId, NoCard)) = "None"
          /\ q # p /\ players[q].protected /\ ~players[q].eliminated
          /\ validate_action(State, Action(p, card, q, NoCard)) = "No valid targets."

\* what a call of setup_round leaves, for a game of 2, 3 or 4 players dealt
\* with the default setup
SetupStep ==
    round_number' # round_number =>
        /\ DOMAIN players' = DOMAIN players
        /\ \A i \in Ids :
              /\ Len(players'[i].hand) = 1
              /\ players'[i].discard = <<>>
              /\ ~players'[i].protected
              /\ ~players'[i].eliminated
              /\ players'[i].tokens = players[i].tokens
        /\ Len(burned') = 1
        /\ Len(face_up') = (IF NumPlayers = 2 THEN 3 ELSE 0)
        /\ Len(deck') = 16 - 1 - Len(face_up') - NumPlayers
        /\ Len(deck') = (CASE NumPlayers = 2 -> 10 [] NumPlayers = 3 -> 12 [] OTHER -> 11)
        /\ round_number' = round_number + 1
        /\ events'[1].kind = "round_start"
        /\ events'[1].round = round_number'
        /\ IF face_up' # <<>>
           THEN events' = <<events'[1], [kind |-> "face_up", cards |-> face_up']>>
           ELSE events' = <<events'[1]>>

\* C18: setup_round post-state.  For 2, 3 and 4 players, after setup_round
\* every player holds exactly one card, has an empty discard, is neither
\* protected nor eliminated and has the tokens held before the call; burned
\* has 1 card, face_up 3 cards for two players and none otherwise, the deck
\* 10, 12 or 11 cards; round_number has grown by 1; and the event log is
\* round_start, followed by face_up exactly when face_up is not empty.
C18_SetupPostState == [][SetupStep]_vars

\* a second round of a two-player game has been set up over a finished first
\* round: a player carries a token into it
C18_Witness ==
    /\ result = Outcome("setup_round", "None")
    /\ round_number = 2
    /\ NumPlayers = 2
    /\ \E i \in Ids : players[i].tokens > 0
    /\ \A i \in Ids : Len(players[i].hand) = 1 /\ players[i].discard = <<>>
    /\ Len(face_up) = 3 /\ Len(deck) = 10 /\ Len(events) = 2

\* the winners the round's round_end event names (empty while the round runs)
RoundWinners ==
    {i \in Ids : \E e \in RoundEnds(events) : In(i, events[e].winners)}

\* the setup_round that follows a round with winners starts the round at the
\* seat of next_start_player_id, names that player in round_start and leaves
\* next_start_player_id alone
NextRoundStep ==
    round_number' # round_number /\ round_over /\ RoundWinners # {} =>
        /\ next_start_player_id \in RoundWinners
        /\ next_start_player_id' = next_start_player_id
        /\ current_player_idx' = next_start_player_id
        /\ events'[1].kind = "round_start"
        /\ events'[1].start_player_id = next_start_player_id

\* C19: the winner starts the next round.  Once a round has ended with at
\* least one winner, next_start_player_id is one of the winners named by
\* round_end; check_round_end sets it to the winner rng.choice picks; and the
\* next setup_round puts current_player_idx on that player's seat and reports
\* the same id as start_player_id of round_start.
C19_WinnerStartsNext ==
    /\ [](RoundExists =>
            /\ round_over /\ RoundWinners # {} => next_start_player_id \in RoundWinners
            /\ \A pick \in Picks(State) :
                   LET out == check_round_end(State, pick)
                   IN  ~round_over /\ Ends(out) /\ pick # NoId =>
                           /\ out.round.next_start_player_id = pick
                           /\ In(pick, out.round.events[Len(events) + 1].winners))
    /\ [][NextRoundStep]_vars

\* the second round has been set up after player 1 won the first: player 1 is
\* the start player, not the seat a fresh game would fall back to
C19_Witness ==
    /\ result = Outcome("setup_round", "None")
    /\ round_number = 2
    /\ players[1].tokens = 1
    /\ \A i \in Ids \ {1} : players[i].tokens = 0
    /\ next_start_player_id = 1
    /\ current_player_idx = 1
    /\ events[1] = [kind |-> "round_start", round |-> 2, start_player_id |-> 1]

\* seat t is the first non-eliminated seat strictly after seat idx in cyclic
\* seat order (idx itself after a full circle)
NextLive(idx, t) ==
    \E d \in 1..NumPlayers :
        /\ t = (idx + d) % NumPlayers
        /\ ~players[t].eliminated
        /\ \A h \in 1..(d - 1) : players[(idx + h) % NumPlayers].eliminated

\* C20: turn order.  In every state of a round advance_turn changes nothing
\* but current_player_idx; on a round that is over it changes nothing at all;
\* otherwise it moves current_player_idx to the first non-eliminated seat
\* strictly after the current seat in cyclic seat order, staying put when the
\* current player is the only non-eliminated one (and when nobody is left).
C20_TurnOrder ==
    RoundExists =>
        LET out == advance_turn(State)
        IN  /\ out = [State EXCEPT !.current_player_idx = out.current_player_idx]
            /\ round_over => out = State
            /\ ~round_over /\ ActiveSet # {} =>
                   NextLive(current_player_idx, out.current_player_idx)
            /\ ~round_over /\ ActiveSet = {current_player_idx} => out = State
            /\ ActiveSet = {} => out = State

\* advance_turn has just passed over an eliminated seat of a three-player
\* round that goes on: the seat before the current one is eliminated
C20_Witness ==
    /\ result = Outcome("advance_turn", "None")
    /\ NumPlayers = 3
    /\ ~round_over
    /\ ~players[current_player_idx].eliminated
    /\ players[(current_player_idx + 2) % 3].eliminated
    /\ ~players[(current_player_idx + 1) % 3].eliminated

\* the eliminated players of the round
Eliminated == {i \in Ids : players[i].eliminated}

\* within a round an eliminated player stays eliminated, with an empty hand
\* and the same discard
EliminatedStep ==
    round_number' = round_number =>
        \A i \in Eliminated :
            /\ players'[i].eliminated
            /\ players'[i].hand = <<>>
            /\ players'[i].discard = players[i].discard

EarlyNextRoundStep ==
    result'.call = "api_next_round" /\ ~round_over =>
        /\ result'.ret = "RulesError"
        /\ UNCHANGED stateVars

\* C22: the next round cannot be requested early.  A next_round request while
\* round_over is false fails with an error and leaves the game state, the
\* round state and round_number as they were, in the single-table session and,
\* for every seat token, in the multiplayer session.
C22_NoEarlyNextRound ==
    /\ [][EarlyNextRoundStep]_vars
    /\ [](~round_over =>
            \A ready \in BOOLEAN, t \in SeatTokens, k \in 1..NumShuffles, idx \in Ids :
                LET out == multi_next_round(State, ready, t, k, idx)
                IN  out.ret \in {"RulesError", "AuthError"} /\ out.round = State)

\* a next_round request has just been refused in the middle of a round: cards
\* have been drawn and played, and the round goes on
C22_Witness ==
    /\ result = Outcome("api_next_round", "RulesError")
    /\ ~round_over
    /\ round_number = 1
    /\ \E e \in 1..Len(events) : events[e].kind = "play"

\* the players who have reached target_tokens
AtTarget == {i \in Ids : players[i].tokens >= target_tokens}

\* C23 as stated: in a two-player game with both players at 6 tokens, once a
\* 7th token has been awarded game_over is true and exactly one player has
\* reached target_tokens.
C23_SingleGameWinner ==
    AtTarget # {} => game_over(State) /\ Cardinality(AtTarget) = 1

\* C23 amended: in a two-player game (target_tokens = 7) with both players at
\* 6 tokens, game_over is false until the round ends; after the round
\* game_over is true and the players with tokens >= target_tokens are exactly
\* the round's winners, each with 7 tokens: one player when the round has one
\* winner, both players when the round ends in a tie.
C23_MatchPoint ==
    /\ target_tokens = 7
    /\ game_over(State) <=> AtTarget # {}
    /\ RoundExists /\ round_over =>
          /\ RoundWinners # {}
          /\ game_over(State)
          /\ AtTarget = RoundWinners
          /\ \A i \in Ids : players[i].tokens = (IF i \in RoundWinners THEN 7 ELSE 6)
          /\ Cardinality(RoundWinners) = 1 => Cardinality(AtTarget) = 1
    /\ ~round_over =>
          /\ ~game_over(State)
          /\ \A i \in Ids : players[i].tokens = 6

\* the deciding round has ended with one winner, who holds the 7th token
C23_Witness ==
    /\ pc = "done"
    /\ round_over
    /\ game_over(State)
    /\ \E w \in Ids :
          /\ RoundWinners = {w}
          /\ AtTarget = {w}
          /\ players[w].tokens = 7
          /\ \A i \in Ids \ {w} : players[i].tokens = 6

\* the events of log new are in the order the code emits them: an elimination
\* discard is directly followed by the eliminated event of the same player,
\* and round_end is followed by the token_awarded events of its winners, in
\* the winners' order, which close the log
InOrder(new) ==
    /\ \A j \in 1..Len(new) :
          new[j].kind = "discard" /\ new[j].reason = "elimination" =>
              /\ j < Len(new)
              /\ new[j + 1].kind = "eliminated"
              /\ new[j + 1].player_id = new[j].player_id
    /\ \A j \in 1..Len(new) :
          new[j].kind = "token_awarded" =>
              \E h \in 1..(j - 1) : new[h].kind = "round_end"
    /\ \A h \in 1..Len(new) :
          new[h].kind = "round_end" =>
              /\ Len(new) = h + Len(new[h].winners)
              /\ \A j \in 1..Len(new[h].winners) :
                    /\ new[h + j].kind = "token_awarded"
                    /\ new[h + j].player_id = new[h].winners[j]

\* an engine call on the round keeps the log it found as a prefix and appends
\* its own events in order; a call that raises appends nothing; an accepted
\* apply_action appends play first, and one play only
LogStep ==
    round_number' = round_number =>
        /\ Len(events') >= Len(events)
        /\ SubSeq(events', 1, Len(events)) = events
        /\ LET new == SubSeq(events', Len(events) + 1, Len(events'))
           IN  /\ InOrder(new)
               /\ result'.ret \in {"RulesError", "ValueError"} => new = <<>>
               /\ result' = Outcome("apply_action", "None") =>
                     /\ new # <<>>
                     /\ new[1].kind = "play"
                     /\ \A j \in 2..Len(new) : new[j].kind # "play"
               /\ result'.call # "apply_action" =>
                     \A j \in 1..Len(new) : new[j].kind # "play"
               /\ result'.call # "check_round_end" =>
                     \A j \in 1..Len(new) : new[j].kind \notin {"round_end", "token_awarded"}

\* C25: the event log is an append-only total order.  Within one round every
\* engine call leaves the events logged before it as an unchanged prefix of
\* the log and appends its own events in the order they happened: play before
\* the effect events of the action, the elimination discard before eliminated,
\* round_end before token_awarded.
C25_AppendOnlyLog == [][LogStep]_vars

\* the log of a round in which a play eliminated a player and the round then
\* ended: play, the elimination discard, eliminated, round_end, token_awarded,
\* in that order
C25_Witness ==
    \E a \in 1..Len(events), b \in 1..Len(events), c \in 1..Len(events) :
        /\ a < b /\ b + 1 < c
        /\ events[a].kind = "play"
        /\ events[b].kind = "discard" /\ events[b].reason = "elimination"
        /\ events[b + 1].kind = "eliminated"
        /\ events[c].kind = "round_end"
        /\ c < Len(events)
        /\ events[c + 1].kind = "token_awarded"

\* C26: play only in the AwaitingPlay phase.  In the table session a play
\* request is accepted only from a current player who has drawn this turn and
\* holds 2 cards; a play request by a current player holding another number
\* of cards is answered with an error and changes no state.
C26_PlayOnlyAfterDraw ==
    [][\A a \in ActionInputs :
          (/\ SessionPlay(a)
           /\ a.player_id = Current
           /\ ~round_over
           /\ Len(players[Current].hand) # 2)
          => (result'.ret = "RulesError" /\ UNCHANGED stateVars)]_vars

\* a play request has been accepted in a round in which nobody has drawn: the
\* current player played the card dealt at setup
C26_PlayedUndrawn ==
    /\ result = Outcome("api_play", "None")
    /\ HasEvent("play")
    /\ ~HasEvent("draw")
    /\ \E i \in Ids : players[i].hand = <<>> /\ Len(players[i].discard) = 1

\* the accepted Guard actions that name a target and a guess, the target
\* holding at most the one card of a player who is not in their turn
GuardPlays ==
    {a \in ActionInputs :
        /\ a.card = GUARD
        /\ a.player_id \in Ids
        /\ a.target_id \in Ids
        /\ a.guess # NoCard
        /\ Len(players[a.target_id].hand) <= 1
        /\ validate_action(State, a) = "None"}

\* C27: Guard effect.  In every state of a round an accepted Guard action
\* with a target and a guess eliminates the target exactly when the target's
\* hand card equals the guess; the eliminated target's hand is then empty and
\* that card is appended to the target's discard; on a miss the target's
\* hand, discard and flags are unchanged.  The actor is not eliminated: the
\* Guard moves from the actor's hand to the actor's discard and nothing else
\* of the actor changes.
C27_GuardEffect ==
    RoundExists =>
        \A a \in GuardPlays :
            LET out    == apply_action(State, a).round
                p      == a.player_id
                t      == a.target_id
                hit    == players[t].hand = <<a.guess>>
            IN  /\ out.players[t].eliminated <=> hit
                /\ hit => /\ out.players[t].hand = <<>>
                          /\ out.players[t].discard = Append(players[t].discard, a.guess)
                /\ ~hit => out.players[t] = players[t]
                /\ out.players[p] =
                       [players[p] EXCEPT !.hand = Remove(@, GUARD),
                                          !.discard = Append(@, GUARD)]
                /\ ~out.players[p].eliminated
                /\ \A i \in Ids \ {p, t} : out.players[i] = players[i]

\* a Guard has just named the card its target held: the target is eliminated,
\* holds nothing and has the guessed card on top of the discard, and the actor
\* plays on
C27_Witness ==
    /\ result = Outcome("apply_action", "None")
    /\ Len(events) >= 4
    /\ LET n == Len(events)
       IN  /\ events[n - 3].kind = "play" /\ events[n - 3].card = GUARD
           /\ events[n - 2].kind = "guard_guess"
           /\ events[n - 1].kind = "discard"
           /\ events[n - 1].card = events[n - 2].guess
           /\ events[n].kind = "eliminated"
           /\ events[n].player_id = events[n - 2].target_id
           /\ players[events[n].player_id].eliminated
           /\ players[events[n].player_id].hand = <<>>
           /\ Last(players[events[n].player_id].discard) = events[n - 2].guess
           /\ ~players[events[n - 2].player_id].eliminated

\* the accepted King actions that name a target, actor and target both
\* holding a card once the King is played
KingPlays ==
    {a \in ActionInputs :
        /\ a.card = KING
        /\ a.player_id \in Ids
        /\ a.target_id \in Ids
        /\ validate_action(State, a) = "None"
        /\ Len(players[a.player_id].hand) >= 2
        /\ players[a.target_id].hand # <<>>}

\* C28: King swap.  In every state of a round, after an accepted King action
\* with a target the actor's hand is the hand the target held before the
\* action and the target's hand is what the actor held once the King was
\* discarded; deck, burned and face_up are unchanged, nobody is eliminated and
\* no discard but the actor's changes.
C28_KingSwap ==
    RoundExists =>
        \A a \in KingPlays :
            LET out  == apply_action(State, a).round
                p    == a.player_id
                t    == a.target_id
            IN  /\ out.players[p].hand = players[t].hand
                /\ out.players[t].hand = Remove(players[p].hand, KING)
                /\ out.players[p].discard = Append(players[p].discard, KING)
                /\ out.deck = deck /\ out.burned = burned /\ out.face_up = face_up
                /\ \A i \in Ids : out.players[i].eliminated = players[i].eliminated
                /\ \A i \in Ids \ {p} : out.players[i].discard = players[i].discard
                /\ \A i \in Ids \ {p, t} : out.players[i] = players[i]
                /\ Last(out.events) = [kind |-> "swap", player_id |-> p, target_id |-> t]

\* a King has just been played on another player: play and swap close the
\* log, the King is on the actor's discard, both players hold one card and
\* nobody is eliminated
C28_Witness ==
    /\ result = Outcome("apply_action", "None")
    /\ Len(events) >= 2
    /\ LET n == Len(events)
       IN  /\ events[n - 1].kind = "play" /\ events[n - 1].card = KING
           /\ events[n].kind = "swap"
           /\ events[n].player_id = events[n - 1].player_id
           /\ events[n].target_id # events[n].player_id
           /\ Last(players[events[n].player_id].discard) = KING
           /\ Len(players[events[n].player_id].hand) = 1
           /\ Len(players[events[n].target_id].hand) = 1
           /\ players[events[n].player_id].hand # players[events[n].target_id].hand
    /\ \A i \in Ids : ~players[i].eliminated

\* Guard, Priest, Baron and King actions without a target, by a player who
\* may play the card while every other non-eliminated player is protected
NoTargetPlays ==
    {a \in ActionInputs :
        /\ a.card \in {GUARD, PRIEST, BARON, KING}
        /\ a.target_id = NoId
        /\ PassesHand(a)
        /\ OpenOthers(a.player_id) = {}}

\* the accepted Priest actions that name a target
PriestPlays ==
    {a \in ActionInputs :
        /\ a.card = PRIEST
        /\ a.player_id \in Ids
        /\ a.target_id \in Ids
        /\ validate_action(State, a) = "None"}

\* the round after player p has moved card c from hand to discard and play
\* has been logged
Played(p, c) ==
    emit([State EXCEPT !.players[p].hand = Remove(@, c),
                       !.players[p].discard = Append(@, c)],
         [kind |-> "play", player_id |-> p, card |-> c])

\* C29: no-target plays are legal no-ops.  In every state of a round, when
\* every other non-eliminated player is protected a Guard, Priest, Baron or
\* King action without a target is accepted, and all it does is move the card
\* from the actor's hand to the actor's discard and log play: every other
\* player, the deck, the burn pile and the flags are as before.  A Priest
\* with a target changes no hand and no discard but the actor's and
\* eliminates nobody.
C29_NoTargetNoOp ==
    RoundExists =>
        /\ \A a \in NoTargetPlays :
               apply_action(State, a) =
                   [round |-> Played(a.player_id, a.card), ret |-> "None"]
        /\ \A a \in PriestPlays :
               LET out == apply_action(State, a).round
               IN  /\ \A i \in Ids \ {a.player_id} : out.players[i] = players[i]
                   /\ ~out.players[a.player_id].eliminated
                   /\ out.players[a.player_id].hand = Remove(players[a.player_id].hand, PRIEST)
                   /\ out.deck = deck /\ out.burned = burned /\ out.face_up = face_up

\* the other players being protected, a Guard, Priest, Baron or King has just
\* been played without a target: play closes the log and nobody is eliminated
C29_Witness ==
    /\ result = Outcome("apply_action", "None")
    /\ Last(events).kind = "play"
    /\ Last(events).card \in {GUARD, PRIEST, BARON, KING}
    /\ Last(players[Last(events).player_id].discard) = Last(events).card
    /\ Len(players[Last(events).player_id].hand) = 1
    /\ \A i \in Ids \ {Last(events).player_id} :
          players[i].protected /\ Len(players[i].hand) = 1
    /\ \A i \in Ids : ~players[i].eliminated

\* what a request that is turned away leaves
Rejected(rs) == [round |-> rs, ret |-> "RulesError"]

\* the events a step appends to the log of the round
NewEvents == SubSeq(events', Len(events) + 1, Len(events'))

\* the table session turns away, with "Not your turn.", every start and play
\* request of a player other than the current one
TableTurnOnly ==
    \A p \in (Ids \cup {NumPlayers}) \ {Current} :
        /\ session_refusal(State, p) = "Not your turn."
        /\ session_start_turn(State, p, NoId) = Rejected(State)
        /\ \A a \in {b \in ActionInputs : b.player_id = p} :
               session_play(State, a, NoId) = Rejected(State)

\* C30 as stated: a start or play request on behalf of a player who is not
\* the current player is rejected with "Not your turn." and changes no state,
\* in the table session and in the multiplayer session, and every draw and
\* play event of a round's log names the player who was current when it was
\* logged.
C30_NotYourTurn ==
    /\ [](/\ TableTurnOnly
          /\ \A t \in {"host", "guest"} :
                (IF t = "host" THEN 0 ELSE 1) # Current =>
                    /\ multi_refusal(State, Ready, t) = "Not your turn."
                    /\ multi_start_turn(State, Ready, t, NoId).round = State)
    /\ [][round_number' = round_number =>
             \A j \in 1..Len(NewEvents) :
                 NewEvents[j].kind \in {"draw", "play"} =>
                     NewEvents[j].player_id = Current]_vars

\* C30 amended: a start or play request on behalf of a player who is not the
\* current player is rejected and changes no state; the error is "Not your
\* turn." in the table session and, once the second seat is taken, in the
\* multiplayer session, which before that turns every request away with
\* "Waiting for Player 2 to join.".  Every play event and every draw event of
\* a turn start names the player who was current when it was logged; the draw
\* event of a Prince replacement names the Prince's target.
C30_OnlyCurrentActs ==
    /\ [](/\ TableTurnOnly
          /\ \A t \in SeatTokens, a \in MultiActionInputs :
                LET refusal == multi_refusal(State, Ready, t)
                    started == multi_start_turn(State, Ready, t, NoId)
                    played  == multi_play(State, Ready, t, a, NoId)
                IN  /\ ~Ready => refusal = "Waiting for Player 2 to join."
                    /\ Ready /\ _player_id_for_token(t, Ready) \notin {NoId, Current}
                          => refusal = "Not your turn."
                    /\ refusal # "None" =>
                          /\ started.round = State /\ played.round = State
                          /\ started.ret = played.ret
                          /\ started.ret = (IF refusal = "Invalid seat token."
                                            THEN "AuthError" ELSE "RulesError"))
    /\ [][round_number' = round_number =>
             \A j \in 1..Len(NewEvents) :
                 /\ NewEvents[j].kind = "play" => NewEvents[j].player_id = Current
                 /\ NewEvents[j].kind = "draw" =>
                       IF "reason" \in DOMAIN NewEvents[j]
                       THEN /\ NewEvents[j].reason = "prince"
                            /\ NewEvents[1].kind = "play"
                            /\ NewEvents[1].card = PRINCE
                       ELSE NewEvents[j].player_id = Current]_vars

\* in a running round with both seats taken, the start request of the player
\* who is not the current player has just been turned away
C30_Witness ==
    /\ Ready
    /\ result = Outcome("api_multi_start", "RulesError")
    /\ ~round_over
    /\ ~players[Current].eliminated
    /\ HasEvent("draw") /\ HasEvent("play")
    /\ \E t \in {"host", "guest"} : multi_refusal(State, Ready, t) = "Not your turn."

----------------------------------------------------------------------------
(* The state payload of the server: server.py *)

CARD_ID_BY_TYPE ==
    <<"guard", "priest", "baron", "handmaid", "prince", "king", "countess",
      "princess">>

_card_id(card) == CARD_ID_BY_TYPE[card]

\* [_card_id(card) for card in cards]
CardIds(cards) == [i \in 1..Len(cards) |-> _card_id(cards[i])]

\* None where the payload holds a list of card ids
NoHand == <<"None">>

\* the fields of an event that hold a CardType, and the one that holds a list
CardFields == {"card", "guess", "player_card", "target_card"}

_serialize_player(rs, p, include_hand) ==
    [id         |-> p,
     tokens     |-> rs.players[p].tokens,
     protected  |-> rs.players[p].protected,
     eliminated |-> rs.players[p].eliminated,
     discard    |-> CardIds(rs.players[p].discard),
     hand       |-> IF include_hand THEN CardIds(rs.players[p].hand) ELSE NoHand,
     hand_count |-> Len(rs.players[p].hand)]

\* _serialize_event with _serialize_event_data: every card becomes its id
_serialize_event(event) ==
    [f \in DOMAIN event |->
        IF f \in CardFields THEN _card_id(event[f])
        ELSE IF f = "cards" THEN CardIds(event[f])
        ELSE event[f]]

\* data.get("reason")
ReasonOf(event) == IF "reason" \in DOMAIN event THEN event.reason ELSE "None"

\* as _serialize_public_event, but every event is serialized whole
_serialize_public_event_whole(event) == _serialize_event(event)

_serialize_public_event(event) ==
    IF event.kind = "draw"
    THEN [kind |-> event.kind, player_id |-> event.player_id,
          reason |-> ReasonOf(event)]
    ELSE IF event.kind = "reveal"
    THEN [kind |-> event.kind, viewer_id |-> event.viewer_id,
          target_id |-> event.target_id]
    ELSE IF event.kind = "baron_compare"
    THEN [kind |-> event.kind, player_id |-> event.player_id,
          target_id |-> event.target_id]
    ELSE _serialize_event(event)

\* a log line: the sentence chosen by kind, with the players and the card ids
\* it names, in the order it names them
Message(kind, names, cards) == [kind |-> kind, names |-> names, cards |-> cards]

NoMessage == Message("None", <<>>, <<>>)

_format_public_event(event) ==
    LET kind == event.kind
    IN  CASE kind = "round_start" -> Message(kind, <<event.start_player_id>>, <<>>)
          [] kind = "face_up" -> Message(kind, <<>>, CardIds(event.cards))
          [] kind = "draw" -> Message(kind, <<event.player_id>>, <<>>)
          [] kind \in {"play", "discard"} ->
                Message(kind, <<event.player_id>>, <<_card_id(event.card)>>)
          [] kind = "guard_guess" ->
                Message(kind, <<event.player_id, event.target_id>>,
                        <<_card_id(event.guess)>>)
          [] kind = "reveal" -> Message(kind, <<event.viewer_id, event.target_id>>, <<>>)
          [] kind \in {"baron_compare", "swap"} ->
                Message(kind, <<event.player_id, event.target_id>>, <<>>)
          [] kind \in {"protected", "protection_ended", "eliminated",
                       "countess_no_effect", "token_awarded"} ->
                Message(kind, <<event.player_id>>, <<>>)
          [] kind = "round_end" -> Message(kind, event.winners, <<>>)
          [] OTHER -> Message(kind, <<>>, <<>>)

\* NoMessage where the code returns None
_format_private_event(event, viewer_id) ==
    IF event.kind = "reveal" /\ event.viewer_id = viewer_id
    THEN Message(event.kind, <<event.target_id>>, <<_card_id(event.card)>>)
    ELSE IF event.kind = "baron_compare"
            /\ viewer_id \in {event.player_id, event.target_id}
    THEN Message(event.kind, <<event.player_id, event.target_id>>,
                 <<_card_id(event.player_card), _card_id(event.target_card)>>)
    ELSE NoMessage

\* round_state.events[-40:]
recent_events(rs) ==
    SubSeq(rs.events, IF Len(rs.events) > 40 THEN Len(rs.events) - 39 ELSE 1,
           Len(rs.events))

\* player_id is NoId where the code is passed None
_build_state_payload(rs, player_id) ==
    LET recent == recent_events(rs)
        told   == [j \in 1..Len(recent) |-> _format_private_event(recent[j], player_id)]
    IN  [players |-> [p \in DOMAIN rs.players |->
                         _serialize_player(rs, p, player_id = p)],
         current_player_id |-> rs.current_player_idx,
         round_over    |-> rs.round_over,
         round_number  |-> rs.round_number,
         target_tokens |-> rs.target_tokens,
         deck_count    |-> Len(rs.deck),
         burned_count  |-> Len(rs.burned),
         face_up       |-> CardIds(rs.face_up),
         events        |-> [j \in 1..Len(recent) |-> _serialize_public_event(recent[j])],
         public_log    |-> [j \in 1..Len(recent) |-> _format_public_event(recent[j])],
         private_log   |-> IF player_id = NoId THEN <<>>
                           ELSE SelectSeq(told, LAMBDA m : m # NoMessage),
         game_over     |-> game_over(rs)]

\* the kinds of event whose cards are hidden from the public
HiddenKinds == {"draw", "reveal", "baron_compare"}

\* the lines of a private log that tell the card a Priest showed
Looks(log) == SelectSeq(log, LAMBDA m : m.kind = "reveal")

\* the reveal events of the round in which that player was the viewer
LooksBy(v) == SelectSeq(events, LAMBDA ev : ev.kind = "reveal" /\ ev.viewer_id = v)

\* C31: the state payload built for a viewer (NoId: no viewer) holds the hand
\* of that viewer only, every other hand is None next to its hand_count; its
\* public events and public log lines of a draw, a Priest reveal and a Baron
\* comparison carry no card; and the card a Priest showed is told in the
\* private log of the player who played that Priest and in nobody else's.
C31_HiddenInformation ==
    \A v \in Ids \cup {NoId} :
        LET payload == _build_state_payload(State, v)
        IN  /\ \A p \in Ids :
                  /\ payload.players[p].hand =
                        (IF p = v THEN CardIds(players[p].hand) ELSE NoHand)
                  /\ payload.players[p].hand_count = Len(players[p].hand)
            /\ Len(payload.events) = Len(events)
            /\ \A j \in 1..Len(events) :
                  events[j].kind \in HiddenKinds =>
                      /\ DOMAIN payload.events[j] \cap (CardFields \cup {"cards"}) = {}
                      /\ payload.public_log[j].cards = <<>>
            /\ Len(Looks(payload.private_log)) = Len(LooksBy(v))
            /\ \A j \in 1..Len(LooksBy(v)) :
                  Looks(payload.private_log)[j].cards = <<_card_id(LooksBy(v)[j].card)>>

\* a Priest has shown a card after a draw: the viewer's payload tells it, the
\* target's payload does not
C31_Witness ==
    /\ HasEvent("draw")
    /\ \E j \in 1..Len(events) :
          /\ events[j].kind = "reveal"
          /\ events[j].viewer_id # events[j].target_id
          /\ Looks(_build_state_payload(State, events[j].viewer_id).private_log) # <<>>
          /\ _build_state_payload(State, events[j].target_id).private_log = <<>>
          /\ players[events[j].target_id].hand # <<>>

----------------------------------------------------------------------------
(* Concurrent requests: server.py, the endpoints and their locks.  FastAPI
   runs the endpoints (plain def) on a thread pool; every endpoint takes the
   lock of the session it addresses around its calls, and the lobby takes its
   own lock around a lookup.  Game 0 is SESSION, the single table, held in the
   variables of the module; games 1 and 2 are two lobby games with both seats
   taken, held in pc.multi.  An engine call is a read of the game (LockCall)
   followed by a write of what it made of it (LockReturn). *)

Threads == 1..2

LobbyGames == 1..2

LockGames == {0} \cup LobbyGames

NoAction == Action(NoId, NoCard, NoId, NoCard)

Request(game, kind, player_id, seat_token, action) ==
    [game |-> game, kind |-> kind, player_id |-> player_id,
     seat_token |-> seat_token, action |-> action]

NoRequest == Request(0, "None", NoId, "", NoAction)

\* the game a request addresses, as it is now
GameOf(g) == IF g = 0 THEN State ELSE pc.multi[g]

\* what a client plays: a card its seat holds when the request is made, on
\* the other seat, with Priest as the guess of a Guard
LockActionInputs(g, p) ==
    {Action(p, card, 1 - p, IF card = GUARD THEN PRIEST ELSE NoCard) :
        card \in {GameOf(g).players[p].hand[i] :
                     i \in 1..Len(GameOf(g).players[p].hand)}}

\* the requests that may arrive now
LockRequests ==
    {Request(0, kind, 0, "", NoAction) : kind \in {"state", "new", "next_round"}}
    \cup {Request(0, "start", p, "", NoAction) : p \in {0, 1}}
    \cup UNION {{Request(0, "play", p, "", a) : a \in LockActionInputs(0, p)} :
                   p \in {0, 1}}
    \cup {Request(g, kind, NoId, t, NoAction) :
             g \in LobbyGames, kind \in {"state", "start", "next_round"},
             t \in {"host", "guest"}}
    \cup UNION {{Request(g, "play", NoId, t, a) :
                     a \in LockActionInputs(g, _player_id_for_token(t, TRUE))} :
                   g \in LobbyGames, t \in {"host", "guest"}}

\* GameSession.next_round
session_next_round(rs, k, idx) ==
    IF ~rs.round_over
    THEN [round |-> rs, ret |-> "RulesError"]                \* "Round is not over."
    ELSE [round |-> setup_round(rs, k, default_setup(Cardinality(DOMAIN rs.players)), idx),
          ret |-> "None"]

\* MultiplayerSession.state_for_token
multi_state(rs, ready, seat_token) ==
    IF _player_id_for_token(seat_token, ready) = NoId
    THEN [round |-> rs, ret |-> "AuthError"]
    ELSE [round |-> rs, ret |-> "None"]

\* what the rng of the session gives a request: pick to the rng.choice of
\* check_round_end, k and idx to the shuffle and the rng.choice of setup_round
Rnd(pick, k, idx) == [pick |-> pick, k |-> k, idx |-> idx]

Rnds(rs, r) ==
    LET seats == IF rs.next_start_player_id = NoId THEN DOMAIN rs.players ELSE {0}
        actor == IF r.game = 0 THEN r.player_id
                 ELSE _player_id_for_token(r.seat_token, TRUE)
    IN  CASE r.kind = "new" ->
                {Rnd(NoId, k, idx) : k \in 1..NumShuffles, idx \in {0, 1}}
          [] r.kind = "next_round" ->
                {Rnd(NoId, k, idx) : k \in 1..NumShuffles, idx \in seats}
          [] r.kind = "start" ->
                {Rnd(pick, 1, 0) : pick \in Picks(AfterStart(rs, actor))}
          [] r.kind = "play" ->
                {Rnd(pick, 1, 0) :
                    pick \in Picks(AfterApply(rs, [r.action EXCEPT !.player_id = actor]))}
          [] OTHER -> {Rnd(NoId, 1, 0)}

\* the calls an endpoint makes inside its with block: [round, ret]
Perform(rs, r, rnd) ==
    IF r.game = 0
    THEN CASE r.kind = "new" ->
                 [round |-> SessionNew(2, rnd.k, rnd.idx), ret |-> "None"]
           [] r.kind = "start" -> session_start_turn(rs, r.player_id, rnd.pick)
           [] r.kind = "play" -> session_play(rs, r.action, rnd.pick)
           [] r.kind = "next_round" -> session_next_round(rs, rnd.k, rnd.idx)
           [] OTHER -> [round |-> rs, ret |-> "None"]
    ELSE CASE r.kind = "start" -> multi_start_turn(rs, TRUE, r.seat_token, rnd.pick)
           [] r.kind = "play" ->
                 multi_play(rs, TRUE, r.seat_token, r.action, rnd.pick)
           [] r.kind = "next_round" ->
                 multi_next_round(rs, TRUE, r.seat_token, rnd.k, rnd.idx)
           [] OTHER -> multi_state(rs, TRUE, r.seat_token)

\* as SessionLockFree, but a lock is never seen as held
SessionLockFree_always(g) == TRUE

\* Lock.acquire of the session's lock goes through
SessionLockFree(g) == pc.lock[g] = 0

\* Lock.acquire of LOBBY.lock goes through
LobbyLockFree == pc.lobby = 0

\* the threads inside the with block of that game's lock
Inside(g) == {t \in Threads : pc.at[t] \in {"locked", "called"} /\ pc.req[t].game = g}

LockInit ==
    /\ \E k \in {1}, idx \in {0} :
          /\ Is(SessionNew(2, k, idx))
          /\ pc = [lock   |-> [g \in LockGames |-> 0],
                   lobby  |-> 0,
                   at     |-> [t \in Threads |-> "idle"],
                   req    |-> [t \in Threads |-> NoRequest],
                   out    |-> [t \in Threads |-> [round |-> SessionNew(2, k, idx),
                                                  ret |-> "None"]],
                   multi  |-> [g \in LobbyGames |-> SessionNew(2, k, idx)],
                   serial |-> [g \in LockGames |-> SessionNew(2, k, idx)],
                   calls  |-> 0]
    /\ result = Outcome("GameSession", "None")

\* a request arrives and is handed to a thread of the pool
LockIssue(t, r) ==
    /\ pc.at[t] = "idle"
    /\ pc.calls < MaxCalls
    /\ pc' = [pc EXCEPT !.at[t] = IF r.game = 0 THEN "waiting" ELSE "lookup",
                        !.req[t] = r,
                        !.calls = @ + 1]
    /\ UNCHANGED <<stateVars, result>>

\* LobbyManager.get: with self.lock
LobbyEnter(t) ==
    /\ pc.at[t] = "lookup"
    /\ LobbyLockFree
    /\ pc' = [pc EXCEPT !.at[t] = "lobby", !.lobby = t]
    /\ UNCHANGED <<stateVars, result>>

\* LobbyManager.get: the session is read and the lobby's lock released
LobbyLeave(t) ==
    /\ pc.at[t] = "lobby"
    /\ pc' = [pc EXCEPT !.at[t] = "waiting", !.lobby = 0]
    /\ UNCHANGED <<stateVars, result>>

\* with SESSION.lock / with session.lock: enter
LockAcquire(t) ==
    /\ pc.at[t] = "waiting"
    /\ SessionLockFree(pc.req[t].game)
    /\ pc' = [pc EXCEPT !.at[t] = "locked", !.lock[pc.req[t].game] = t]
    /\ UNCHANGED <<stateVars, result>>

\* the session method starts: it works on the game as it finds it; serial is
\* the game that the requests make when run one after the other in this order
LockCall(t) ==
    /\ pc.at[t] = "locked"
    /\ LET r == pc.req[t]
       IN  \E rnd \in Rnds(GameOf(r.game), r) :
              pc' = [pc EXCEPT !.at[t] = "called",
                               !.out[t] = Perform(GameOf(r.game), r, rnd),
                               !.serial[r.game] = Perform(@, r, rnd).round]
    /\ UNCHANGED <<stateVars, result>>

\* the session method has made its changes, the response is built and the
\* with block is left
LockReturn(t) ==
    /\ pc.at[t] = "called"
    /\ LET r   == pc.req[t]
           out == pc.out[t]
           left == [pc EXCEPT !.at[t] = "idle", !.req[t] = NoRequest,
                              !.lock[r.game] = IF @ = t THEN 0 ELSE @]
       IN  /\ IF r.game = 0
              THEN Becomes(out.round) /\ pc' = left
              ELSE /\ UNCHANGED stateVars
                   /\ pc' = [left EXCEPT !.multi[r.game] = out.round]
           /\ result' = Outcome(r.kind, out.ret)

LockNext ==
    \/ \E t \in Threads, r \in LockRequests : LockIssue(t, r)
    \/ \E t \in Threads : LobbyEnter(t)
    \/ \E t \in Threads : LobbyLeave(t)
    \/ \E t \in Threads : LockAcquire(t)
    \/ \E t \in Threads : LockCall(t)
    \/ \E t \in Threads : LockReturn(t)

SpecLock == LockInit /\ [][LockNext]_vars

\* C32: every engine call of a request runs while the request's thread holds
\* the lock of the game it addresses, so at most one thread is inside a game;
\* whenever no thread is inside a game, the game is in the state that the
\* requests made on it give when run one after the other, in the order in
\* which they entered; and a request waiting for the lock of one game can
\* enter as soon as no thread is inside that game, whoever is inside another.
C32_MutualExclusion ==
    /\ \A t \in Threads :
          pc.at[t] \in {"locked", "called"} => pc.lock[pc.req[t].game] = t
    /\ \A g \in LockGames :
          /\ Cardinality(Inside(g)) <= 1
          /\ Inside(g) = {} => GameOf(g) = pc.serial[g]
    /\ \A t \in Threads :
          pc.at[t] = "waiting" /\ Inside(pc.req[t].game) = {} => ENABLED LockAcquire(t)

\* two requests are inside two different lobby games at once, and both have
\* changed their game
C32_Witness ==
    /\ Inside(1) # {} /\ Inside(2) # {}
    /\ \A t \in Threads : pc.at[t] = "called" /\ pc.out[t].round # GameOf(pc.req[t].game)

----------------------------------------------------------------------------
(* C33 *)

\* the action the claim names for a card: the actor for a Prince, the first
\* valid target for a Guard, Priest, Baron or King when there is one, no
\* target otherwise; a guess (Priest) for a Guard that has a target
PlainAction(p, card) ==
    LET valid == valid_targets(State, p, card)
        t == IF card = PRINCE THEN p
             ELSE IF card \in {GUARD, PRIEST, BARON, KING} /\ valid # <<>> THEN valid[1]
             ELSE NoId
    IN  Action(p, card, t, IF card = GUARD /\ t # NoId THEN PRIEST ELSE NoCard)

\* the current player is alive and holds two cards in a round that is not over
MustPlay ==
    /\ RoundExists /\ ~round_over
    /\ ~players[Current].eliminated
    /\ Len(players[Current].hand) = 2

\* C33: whenever the current player is not eliminated and holds two cards in
\* a round that is not over, legal_play_cards is not empty and for each of its
\* cards validate_action accepts an action: with the actor as target for a
\* Prince, with no target where the card has no valid target, with a valid
\* target (and a guess for a Guard) otherwise; apply_action does not refuse it.
C33_NoStuckTurn ==
    MustPlay =>
        /\ legal_play_cards(players[Current].hand) # <<>>
        /\ \A card \in ToSet(legal_play_cards(players[Current].hand)) :
              /\ validate_action(State, PlainAction(Current, card)) = "None"
              /\ apply_action(State, PlainAction(Current, card)).ret # "RulesError"

\* the current player must play a Guard, Priest, Baron or King while every
\* other player is protected or out: the accepted action names no target
C33_Witness ==
    /\ MustPlay
    /\ ToSet(players[Current].hand) \cap {GUARD, PRIEST, BARON, KING} # {}
    /\ \A i \in Ids \ {Current} : players[i].protected \/ players[i].eliminated
    /\ \E card \in ToSet(legal_play_cards(players[Current].hand)) :
          card \in {GUARD, PRIEST, BARON, KING} /\ PlainAction(Current, card).target_id = NoId

----------------------------------------------------------------------------
(* C34 *)

\* the cards setup_round leaves on the deck of an m-player round
DeckAfterSetup(m) ==
    Len(setup_round(NewGame(m), 1, default_setup(m), 0).deck)

\* the turns started in the round: the draw events of start_turn
TurnsStarted ==
    Len(SelectSeq(events, LAMBDA ev : ev.kind = "draw" /\ "reason" \notin DOMAIN ev))

\* C34: under the loop of main a round that was set up is over in the end;
\* every turn started has taken at least one card from the deck, which held
\* 10, 12 or 11 cards after the setup of 2, 3 or 4 players, so a round has at
\* most that many turns.
C34_RoundTerminates ==
    /\ [](/\ DeckAfterSetup(2) = 10 /\ DeckAfterSetup(3) = 12 /\ DeckAfterSetup(4) = 11
          /\ RoundExists =>
                /\ Len(deck) + TurnsStarted <= DeckAfterSetup(NumPlayers)
                /\ TurnsStarted <= DeckAfterSetup(NumPlayers))
    /\ (RoundExists /\ ~round_over) ~> round_over

\* a round ended by the comparison of hands after its last card was drawn, in
\* as many turns as the deck held
C34_Witness ==
    /\ round_over
    /\ deck = <<>>
    /\ TurnsStarted = DeckAfterSetup(NumPlayers)
    /\ Cardinality({i \in Ids : ~players[i].eliminated}) = 2

----------------------------------------------------------------------------
(* C35 *)

\* the round_end events of the log list a winner
RoundEndHasWinner ==
    \A j \in 1..Len(events) : events[j].kind = "round_end" => events[j].winners # <<>>

\* C35 as stated: in every state the table session reaches, a check_round_end
\* that finds the round decided (one player left, or the deck exhausted) ends
\* it without raising, and every round_end event lists at least one winner.
C35_RoundHasWinner ==
    /\ result.ret # "ValueError"
    /\ RoundEndHasWinner
    /\ ActiveSet # {}
    /\ ~round_over /\ (Cardinality(ActiveSet) <= 1 \/ deck = <<>>) =>
          \A pick \in Picks(State) : check_round_end(State, pick).ret = "None"

\* POST /api/play has ended in the ValueError of check_round_end: the deck is
\* exhausted, both players are in the round and neither holds a card
C35_Raised ==
    /\ result = Outcome("api_play", "ValueError")
    /\ ~round_over
    /\ deck = <<>>
    /\ Cardinality(ActiveSet) = 2
    /\ \A i \in ActiveSet : players[i].hand = <<>>
    /\ HasEvent("draw")

----------------------------------------------------------------------------
(* C36 *)

TotalTokens == SumSeq([i \in 1..NumPlayers |-> players[i - 1].tokens])

\* the rounds a game of that many players can need at most
MostRounds == NumPlayers * (target_tokens - 1) + 1

\* a step that completes a round raises the total number of tokens
RoundPays == (~round_over /\ round_over') => TotalTokens' > TotalTokens

\* C36: under the loop of main, which sets up a round only while game_over is
\* false, every round that is completed raises the total number of tokens, no
\* more than n * (target_tokens - 1) + 1 rounds are set up and no round is set
\* up behind the tokens awarded; in the end game_over is true and the loop is
\* left.
C36_GameTerminates ==
    /\ [][RoundPays]_vars
    /\ [](/\ round_number <= MostRounds
          /\ round_number <= TotalTokens + 1
          /\ pc = "game_loop" => ~game_over(State) /\ round_number <= TotalTokens)
    /\ <>[](pc = "done" /\ game_over(State))

\* the game is won in its last possible round: the loop of main is left after
\* round n * (target_tokens - 1) + 1
C36_Witness ==
    /\ pc = "done"
    /\ game_over(State)
    /\ round_over
    /\ round_number = MostRounds
    /\ HasEvent("token_awarded")

----------------------------------------------------------------------------
(* C37 *)

----------------------------------------------------------------------------
(* C38 *)

\* a start or play request answered while the round is over leaves the hands,
\* discards, flags and tokens, the deck, the burned card and the log alone
FrozenStep ==
    (/\ round_over
     /\ result'.call \in {"api_start", "api_play"}) =>
        /\ players' = players
        /\ deck' = deck
        /\ burned' = burned
        /\ events' = events

\* C38 as stated: once round_over is true, no start or play request to the
\* table session changes a hand, a discard pile, the deck, the burned card, a
\* protected or eliminated flag, a token count or the event log.
C38_FinishedRoundFrozen == [][FrozenStep]_vars

\* POST /api/start was answered without an error after the round had ended:
\* the log holds a draw event behind its round_end event
C38_DrawnAfterEnd ==
    /\ round_over
    /\ result = Outcome("api_start", "None")
    /\ \E j \in 1..Len(events) :
          /\ events[j].kind = "round_end"
          /\ \E h \in (j + 1)..Len(events) : events[h].kind = "draw"

----------------------------------------------------------------------------
(* C39 *)

\* C39: under the loop of main, with the default setup, every start_turn
\* finds a card on the deck, draws it and returns True: at the top of the
\* inner loop of a round that is not over the deck is not empty, no
\* deck_empty event is logged and the branch for a False start_turn is never
\* taken.
C39_DeckNeverEmptyAtStart ==
    /\ pc # "deck_empty"
    /\ ~HasEvent("deck_empty")
    /\ result.call = "start_turn" => result.ret = "True" /\ Last(events).kind = "draw"
    /\ (pc = "round_loop" /\ RoundExists /\ ~round_over) =>
          /\ deck # <<>>
          /\ ~players[Current].eliminated => start_turn(State, Current).ret = "True"

\* the play that followed the draw of the last card is over, and the
\* check_round_end behind it has ended the round by comparing the two hands
C39_Witness ==
    /\ pc = "round_loop"
    /\ round_over
    /\ deck = <<>>
    /\ Cardinality(ActiveSet) = 2
    /\ result.call = "check_round_end"
    /\ Last(events).kind = "token_awarded"
    /\ ~HasEvent("deck_empty")

----------------------------------------------------------------------------
(* The table session at match point: both players one token short of
   target_tokens, the round after as many rounds as tokens set up *)

WonInit ==
    /\ \E first \in 0..1, k \in 1..NumShuffles :
          Is(setup_round(MatchPoint(first), k, default_setup(2), first))
    /\ result = Outcome("api_next_round", "None")
    /\ pc = "server"

\* POST /api/next_round; rounds are explored until a player is past
\* target_tokens
WonNextRound ==
    /\ \E k \in 1..NumShuffles, idx \in StartSeats :
          LET out == session_next_round(State, k, idx)
          IN  /\ out.ret = "None" => \A i \in Ids : players[i].tokens <= target_tokens
              /\ Becomes(out.round)
              /\ result' = Outcome("api_next_round", out.ret)
    /\ pc' = pc

WonNext ==
    \/ ThreeServed /\ SessionStartTurn(Current)
    \/ \E a \in {b \in ActionInputs : b.player_id = Current} : ThreeServed /\ SessionPlay(a)
    \/ WonNextRound

SpecWon == WonInit /\ [][WonNext]_vars

\* a step taken while game_over is true sets up no round and awards no token
AfterWinStep ==
    game_over(State) =>
        /\ round_number' = round_number
        /\ \A i \in Ids : players'[i].tokens = players[i].tokens

\* C40 as stated: in every state the table session reaches, no player has
\* more than target_tokens tokens; once game_over is true a next_round
\* request is rejected, no round is set up and no token is awarded.
C40_NoPlayAfterWin ==
    /\ [](/\ \A i \in Ids : players[i].tokens <= target_tokens
          /\ game_over(State) =>
                \A k \in 1..NumShuffles, idx \in Ids :
                    session_next_round(State, k, idx) = [round |-> State, ret |-> "RulesError"])
    /\ [][AfterWinStep]_vars

\* a round set up by POST /api/next_round after the game was won has been
\* played to its end, and its winner holds more than target_tokens tokens
C40_TokensPastTarget ==
    /\ round_over
    /\ result = Outcome("api_play", "None")
    /\ \E i \in Ids : players[i].tokens > target_tokens
    /\ round_number > 2 * (target_tokens - 1) + 1

====
